---- MODULE Spec2Model ----
(***************************************************************************)
(* Laminar core pipeline: Zatoshi money type, row/batch validation,         *)
(* ZIP-321 URI construction, byte-budget segmentation, UR fragment codec,   *)
(* QR output; desktop session key and local storage; CLI dispatch.          *)
(*                                                                          *)
(* Representation:                                                          *)
(*  - a Rust String is a sequence of characters, each a one-character      *)
(*    string; its byte length is the sum of the characters' UTF-8 lengths;  *)
(*  - a u64 is held as its three base-ZATOSHI_PER_ZEC digits <<d2,d1,d0>>   *)
(*    (value = d2*10^16 + d1*10^8 + d0), so that the full 64-bit range and  *)
(*    the supply cap 2.1*10^15 are exact with 32-bit model integers;        *)
(*  - Result<T,E> is [ok |-> TRUE, val |-> t] or [ok |-> FALSE, err |-> e]. *)
(***************************************************************************)
EXTENDS Integers, Sequences, FiniteSets, TLC

VARIABLES
    \* --- money specification (types.rs) ---
    zop,        \* last Zatoshi API call: [name, arg..]
    zres,       \* its Result
    acc,        \* most recently obtained Zatoshi, or None
    prev,       \* the Zatoshi obtained before it, or None
    zsteps,     \* number of API calls made
    \* --- pipeline specification (validation.rs, zip321.rs, batch.rs) ---
    rows,       \* Vec<RawRow> handed to validate_batch
    config,     \* BatchConfig
    vres,       \* Result of validate_batch, or None
    batch,      \* the ValidatedBatch in hand (validated or caller-built), or None
    budget,     \* max_payload_bytes of the last segment_batch call
    sres,       \* Result of segment_batch, or None
    now,        \* wall clock (seconds), advanced by the environment
    calls,      \* history of construct_zip321 calls: set of [input, output]
    \* --- UR codec specification (ur_encoder.rs) ---
    payload,    \* bytes handed to encode_ur_fragments
    fraglen,    \* max_fragment_len
    eres,       \* Result of encode_ur_fragments, or None
    supplied,   \* fragments handed to decode_ur_fragments
    dres,       \* Result of decode_ur_fragments, or None
    \* --- QR output specification (qr.rs) ---
    intent,     \* TransactionIntent handed to generate_qr, or None
    qres,       \* Result of generate_qr, or None
    scanned,    \* what a receiver reassembles from the frames, or None
    \* --- desktop specification (encryption.rs, storage.rs, commands.rs) ---
    session_key,\* the Option<[u8; 32]> behind key_store()
    db_file,    \* the LocalDb in laminar-indexeddb-v1.json, or None (no file)
    procs,      \* per thread: the storage command it is inside and its local db
    history,    \* the calls that returned, in order, with what they returned
    issued,     \* number of calls started (orders the ids of make_id)
    \* --- CLI specification (laminar-cli main.rs) ---
    invocation, \* the parsed command line and its environment, or None
    cli_steps,  \* the steps dispatch has run, in order
    cli_out     \* Result of dispatch, or None

moneyVars == <<zop, zres, acc, prev, zsteps>>
pipeVars  == <<rows, config, vres, batch, budget, sres, now, calls>>
urVars    == <<payload, fraglen, eres, supplied, dres>>
qrVars    == <<intent, qres, scanned>>
deskVars  == <<session_key, db_file, procs, history, issued>>
cliVars   == <<invocation, cli_steps, cli_out>>
vars      == <<moneyVars, pipeVars, urVars, qrVars, deskVars, cliVars>>

\* Option<T>: None or Some(v)
None == [none |-> TRUE]
Some(v) == [some |-> v]
Ok(v) == [ok |-> TRUE, val |-> v]
Err(e) == [ok |-> FALSE, err |-> e]
IsOk(r) == r # None /\ r.ok
IsErr(r) == r # None /\ ~r.ok

(***************************************************************************)
(* Strings                                                                  *)
(***************************************************************************)
Digits == <<"0", "1", "2", "3", "4", "5", "6", "7", "8", "9">>

IsDigit(c) == \E i \in 1..10 : Digits[i] = c

DigitVal(c) == (CHOOSE i \in 1..10 : Digits[i] = c) - 1

\* byte.is_ascii_digit() for every byte (vacuously true of the empty string)
AllDigits(s) == \A i \in 1..Len(s) : IsDigit(s[i])

\* char::is_whitespace for the characters the model uses
IsWhitespace(c) == c \in {" ", "\t", "\n", "\r"}

RECURSIVE TrimStart(_)
TrimStart(s) ==
    IF s # <<>> /\ IsWhitespace(Head(s)) THEN TrimStart(Tail(s)) ELSE s

RECURSIVE TrimEnd(_)
TrimEnd(s) ==
    IF s # <<>> /\ IsWhitespace(s[Len(s)])
    THEN TrimEnd(SubSeq(s, 1, Len(s) - 1))
    ELSE s

\* str::trim
Trim(s) == TrimEnd(TrimStart(s))

\* str::starts_with
StartsWith(s, p) == Len(s) >= Len(p) /\ SubSeq(s, 1, Len(p)) = p

Repeat(c, n) == [i \in 1..n |-> c]

\* the concatenation of ss[lo..hi], by halves (shallow recursion)
RECURSIVE ConcatRange(_, _, _)
ConcatRange(ss, lo, hi) ==
    IF lo > hi THEN <<>>
    ELSE IF lo = hi THEN ss[lo]
    ELSE LET mid == (lo + hi) \div 2
         IN ConcatRange(ss, lo, mid) \o ConcatRange(ss, mid + 1, hi)

\* [String]::concat
Concat(ss) == ConcatRange(ss, 1, Len(ss))

\* [String]::join(sep)
Join(ss, sep) ==
    Concat([i \in 1..Len(ss) |-> IF i = 1 THEN ss[i] ELSE sep \o ss[i]])

(***************************************************************************)
(* u64 arithmetic on base-ZATOSHI_PER_ZEC digits                            *)
(***************************************************************************)
ZATOSHI_PER_ZEC == 100000000

\* u64::MAX = 18446744073709551615
U64_MAX == <<1844, 67440737, 9551615>>

U64Lt(a, b) ==
    \/ a[1] < b[1]
    \/ a[1] = b[1] /\ a[2] < b[2]
    \/ a[1] = b[1] /\ a[2] = b[2] /\ a[3] < b[3]

U64Le(a, b) == a = b \/ U64Lt(a, b)

\* u64::checked_add: None on overflow
U64CheckedAdd(a, b) ==
    LET s0 == a[3] + b[3]
        s1 == a[2] + b[2] + (s0 \div ZATOSHI_PER_ZEC)
        s2 == a[1] + b[1] + (s1 \div ZATOSHI_PER_ZEC)
        r  == <<s2, s1 % ZATOSHI_PER_ZEC, s0 % ZATOSHI_PER_ZEC>>
    IN IF U64Le(r, U64_MAX) THEN Some(r) ELSE None

\* u64::checked_mul(ZATOSHI_PER_ZEC): None on overflow
U64CheckedMulZec(a) ==
    LET r == <<a[2], a[3], 0>>
    IN IF a[1] = 0 /\ U64Le(r, U64_MAX) THEN Some(r) ELSE None

\* value / ZATOSHI_PER_ZEC and value % ZATOSHI_PER_ZEC
U64DivZec(a) == <<0, a[1], a[2]>>
U64ModZec(a) == <<0, 0, a[3]>>

\* one step of decimal parsing: acc * 10 + d, None on overflow
U64PushDigit(a, d) ==
    LET t0 == a[3] * 10 + d
        t1 == a[2] * 10 + (t0 \div ZATOSHI_PER_ZEC)
        t2 == a[1] * 10 + (t1 \div ZATOSHI_PER_ZEC)
        r  == <<t2, t1 % ZATOSHI_PER_ZEC, t0 % ZATOSHI_PER_ZEC>>
    IN IF U64Le(r, U64_MAX) THEN Some(r) ELSE None

RECURSIVE U64ParseFrom(_, _)
U64ParseFrom(s, a) ==
    IF s = <<>> THEN Some(a)
    ELSE LET n == U64PushDigit(a, DigitVal(Head(s)))
         IN IF n = None THEN None ELSE U64ParseFrom(Tail(s), n.some)

\* str::parse::<u64> on a string of ASCII digits: None when empty or too large
U64Parse(s) == IF s = <<>> THEN None ELSE U64ParseFrom(s, <<0, 0, 0>>)

RECURSIVE NatToString(_)
NatToString(n) ==
    IF n < 10 THEN <<Digits[n + 1]>>
    ELSE NatToString(n \div 10) \o <<Digits[(n % 10) + 1]>>

\* format!("{:0w}"): left-pad with zeros to at least w characters
PadZero(s, w) == IF Len(s) >= w THEN s ELSE Repeat("0", w - Len(s)) \o s

\* u64::to_string
U64ToString(a) ==
    IF a[1] > 0
    THEN NatToString(a[1]) \o PadZero(NatToString(a[2]), 8) \o PadZero(NatToString(a[3]), 8)
    ELSE IF a[2] > 0
    THEN NatToString(a[2]) \o PadZero(NatToString(a[3]), 8)
    ELSE NatToString(a[3])

(***************************************************************************)
(* Zatoshi (types.rs)                                                       *)
(***************************************************************************)
ZATOSHI_MIN == <<0, 0, 1>>
ZATOSHI_MAX == <<0, 21000000, 0>>

InRange(v) == U64Le(ZATOSHI_MIN, v) /\ U64Le(v, ZATOSHI_MAX)

AmountErr(kind) == Err([kind |-> kind])

\* a constructor that checks the lower bound only
Zatoshi_new_NoCap(value) ==
    IF U64Lt(value, ZATOSHI_MIN) THEN AmountErr("BelowMinimum") ELSE Ok(value)

\* Zatoshi::new
Zatoshi_new(value) ==
    IF U64Lt(value, ZATOSHI_MIN) THEN AmountErr("BelowMinimum")
    ELSE IF U64Lt(ZATOSHI_MAX, value) THEN Err([kind |-> "AboveMaximum", value |-> value])
    ELSE Ok(value)

\* fn parse_u64_digits
parse_u64_digits(input) ==
    IF ~AllDigits(input) THEN AmountErr("InvalidNumeric")
    ELSE LET n == U64Parse(input)
         IN IF n = None THEN AmountErr("Overflow") ELSE Ok(n.some)

\* str::split('.') as the sequence of its parts
RECURSIVE SplitDot(_)
SplitDot(s) ==
    IF \E i \in 1..Len(s) : s[i] = "."
    THEN LET i == CHOOSE k \in 1..Len(s) : s[k] = "." /\ \A j \in 1..(k - 1) : s[j] # "."
         IN <<SubSeq(s, 1, i - 1)>> \o SplitDot(SubSeq(s, i + 1, Len(s)))
    ELSE <<s>>

\* the fractional part of from_zec_str (types.rs 59-80), as a Result<u64>
FracZat(parts) ==
    IF Len(parts) < 2 THEN Ok(<<0, 0, 0>>)
    ELSE LET fraction == parts[2]
         IN IF Len(fraction) > 8
            THEN Err([kind |-> "TooManyDecimals", decimals |-> Len(fraction)])
            ELSE IF fraction # <<>> /\ ~AllDigits(fraction)
            THEN AmountErr("InvalidNumeric")
            ELSE parse_u64_digits(fraction \o Repeat("0", 8 - Len(fraction)))

\* Zatoshi::from_zec_str
from_zec_str(input) ==
    LET trimmed == Trim(input)
        parts   == SplitDot(trimmed)
        whole_str == parts[1]
    IN IF trimmed = <<>> THEN AmountErr("EmptyInput")
       ELSE IF StartsWith(trimmed, <<"-">>) THEN AmountErr("NegativeNotAllowed")
       ELSE IF Len(parts) > 2 THEN AmountErr("InvalidFormat")
       ELSE IF whole_str = <<>> THEN AmountErr("InvalidFormat")
       ELSE IF ~AllDigits(whole_str) THEN AmountErr("InvalidNumeric")
       ELSE LET whole == parse_u64_digits(whole_str)
            IN IF ~whole.ok THEN whole
               ELSE LET whole_zat == U64CheckedMulZec(whole.val)
                    IN IF whole_zat = None THEN AmountErr("Overflow")
                       ELSE LET frac_zat == FracZat(parts)
                            IN IF ~frac_zat.ok THEN frac_zat
                               ELSE LET combined == U64CheckedAdd(whole_zat.some, frac_zat.val)
                                    IN IF combined = None THEN AmountErr("Overflow")
                                       ELSE Zatoshi_new(combined.some)

RECURSIVE StripTrailingZeros(_)
StripTrailingZeros(s) ==
    IF s # <<>> /\ s[Len(s)] = "0"
    THEN StripTrailingZeros(SubSeq(s, 1, Len(s) - 1))
    ELSE s

\* a formatter that writes the fractional zatoshis without left padding
to_zec_string_Unpadded(self) ==
    LET whole == U64DivZec(self)
        frac  == U64ModZec(self)
    IN IF frac = <<0, 0, 0>> THEN U64ToString(whole)
       ELSE U64ToString(whole) \o <<".">> \o StripTrailingZeros(U64ToString(frac))

\* Zatoshi::to_zec_string
to_zec_string(self) ==
    LET whole == U64DivZec(self)
        frac  == U64ModZec(self)
    IN IF frac = <<0, 0, 0>> THEN U64ToString(whole)
       ELSE U64ToString(whole) \o <<".">>
            \o StripTrailingZeros(PadZero(U64ToString(frac), 8))

\* an addition that reports every failure as an arithmetic overflow
checked_add_OverflowOnly(self, other) ==
    LET sum == U64CheckedAdd(self, other)
    IN IF sum = None \/ ~Zatoshi_new(sum.some).ok THEN AmountErr("Overflow")
       ELSE Zatoshi_new(sum.some)

\* Zatoshi::checked_add
checked_add(self, other) ==
    LET sum == U64CheckedAdd(self, other)
    IN IF sum = None THEN AmountErr("Overflow") ELSE Zatoshi_new(sum.some)

\* fn is_valid_zatoshi_integer_string
is_valid_zatoshi_integer_string(input) ==
    IF input = <<>> \/ ~AllDigits(input) THEN FALSE
    ELSE IF input = <<"0">> THEN TRUE
    ELSE ~StartsWith(input, <<"0">>)

\* ZatoshiString::new
ZatoshiString_new(value) ==
    IF is_valid_zatoshi_integer_string(value) THEN Ok(value)
    ELSE Err([kind |-> "InvalidZatoshiString", value |-> value])

\* impl TryFrom<ZatoshiString> for Zatoshi
Zatoshi_try_from_string(zs) ==
    LET parsed == parse_u64_digits(zs)
    IN IF ~parsed.ok THEN parsed ELSE Zatoshi_new(parsed.val)

(***************************************************************************)
(* Money specification: the public Zatoshi API driven with sample inputs    *)
(***************************************************************************)
MaxMoneyOps == 3
MaxSmall == 11

\* u64 arguments: the small values, and values around the unit and the cap
SampleU64 ==
    {<<0, 0, n>> : n \in 0..MaxSmall}
    \cup {<<0, 0, 12345678>>, <<0, 0, 10000000>>, <<0, 0, 99999999>>,
          <<0, 1, 0>>, <<0, 1, 1>>, <<0, 1, 50000000>>, <<0, 1, 12345678>>,
          <<0, 123, 45600000>>, <<0, 10500000, 0>>, <<0, 20999999, 99999999>>,
          ZATOSHI_MAX, <<0, 21000000, 1>>, <<1, 0, 0>>, U64_MAX}

\* decimal ZEC strings (types.rs tests 290-328 and malformed variants)
SampleZecStr ==
    {
      <<"1">>,
      <<"1", ".", "0">>,
      <<"1", ".", "5">>,
      <<"0", ".", "0", "0", "0", "0", "0", "0", "0", "1">>,
      <<"1", ".", "1", "2", "3", "4", "5", "6", "7", "8">>,
      <<"2", "1", "0", "0", "0", "0", "0", "0">>,
      <<"0", ".", "1", "2", "3", "4", "5", "6", "7", "8", "9">>,
      <<"-", "1">>,
      <<>>,
      <<" ">>,
      <<"a", "b", "c">>,
      <<"2", "1", "0", "0", "0", "0", "0", "0", ".", "0", "0", "0", "0", "0", "0", "0", "1">>,
      <<"0">>,
      <<"0", ".", "0">>,
      <<"1", ".">>,
      <<".", "5">>,
      <<"1", ".", "2", ".", "3">>,
      <<" ", "2", " ">>,
      <<"+", "1">>,
      <<"1", "8", "4", "4", "6", "7", "4", "4", "0", "7", "3", "8">>,
      <<"9", "9", "9", "9", "9", "9", "9", "9", "9", "9", "9", "9", "9", "9", "9", "9", "9", "9", "9", "9">>,
      <<"1", ".", "5", "x">>,
      <<"2", "0", "9", "9", "9", "9", "9", "9", ".", "9", "9", "9", "9", "9", "9", "9", "9">>
    }

\* integer zatoshi strings (types.rs test 377-386 and the range boundary)
SampleZatStr ==
    {
      <<"0">>,
      <<"1">>,
      <<"1", "2", "3", "4", "5", "6">>,
      <<"0", "1">>,
      <<"-", "1">>,
      <<"1", ".", "0">>,
      <<>>,
      <<"2", "1", "0", "0", "0", "0", "0", "0", "0", "0", "0", "0", "0", "0", "0", "0">>,
      <<"2", "1", "0", "0", "0", "0", "0", "0", "0", "0", "0", "0", "0", "0", "0", "1">>,
      <<"1", "8", "4", "4", "6", "7", "4", "4", "0", "7", "3", "7", "0", "9", "5", "5", "1", "6", "1", "6">>
    }

MoneyIdle ==
    /\ zop = None /\ zres = None /\ acc = None /\ prev = None /\ zsteps = 0

\* a call returned r: a successful result becomes the value in hand
Obtained(op, r) ==
    /\ zsteps < MaxMoneyOps
    /\ zsteps' = zsteps + 1
    /\ zop' = op
    /\ zres' = r
    /\ IF r.ok THEN acc' = Some(r.val) /\ prev' = acc ELSE UNCHANGED <<acc, prev>>
    /\ UNCHANGED <<pipeVars, urVars, qrVars, deskVars, cliVars>>

ZNew ==
    \E v \in SampleU64 : Obtained([name |-> "new", arg |-> v], Zatoshi_new(v))

\* impl TryFrom<u64> for Zatoshi
Zatoshi_try_from_u64(value) == Zatoshi_new(value)

ZTryFromU64 ==
    \E v \in SampleU64 :
        Obtained([name |-> "try_from_u64", arg |-> v], Zatoshi_try_from_u64(v))

ZFromZecStr ==
    \E s \in SampleZecStr :
        Obtained([name |-> "from_zec_str", arg |-> s], from_zec_str(s))

ZCheckedAdd ==
    /\ acc # None
    /\ \E other \in ({acc, prev} \ {None}) :
        Obtained([name |-> "checked_add", arg |-> acc.some, other |-> other.some],
                 checked_add(acc.some, other.some))

\* ZatoshiString::new followed by Zatoshi::try_from
ZFromZatoshiString ==
    \E s \in SampleZatStr :
        LET zs == ZatoshiString_new(s)
        IN Obtained([name |-> "try_from_string", arg |-> s],
                    IF zs.ok THEN Zatoshi_try_from_string(zs.val) ELSE zs)

\* format the Zatoshi in hand and parse the text back
ZRoundTrip ==
    /\ acc # None
    /\ LET text == to_zec_string(acc.some)
       IN Obtained([name |-> "roundtrip", arg |-> acc.some, text |-> text],
                   from_zec_str(text))

NextMoney ==
    \/ ZNew
    \/ ZTryFromU64
    \/ ZFromZecStr
    \/ ZCheckedAdd
    \/ ZFromZatoshiString
    \/ ZRoundTrip

PipeIdle ==
    /\ rows = <<>> /\ config = None /\ vres = None /\ batch = None
    /\ budget = 0 /\ sres = None /\ now = 0 /\ calls = {}

UrIdle ==
    /\ payload = <<>> /\ fraglen = 0 /\ eres = None /\ supplied = <<>> /\ dres = None

QrIdle ==
    /\ intent = None /\ qres = None /\ scanned = None

\* the threads that run storage commands: the main thread (synchronous
\* commands) and two threads of the blocking pool (run_blocking)
Procs == {"main", "pool-1", "pool-2"}

DeskIdle ==
    /\ session_key = None /\ db_file = None
    /\ procs = [p \in Procs |-> [pc |-> "idle"]]
    /\ history = <<>> /\ issued = 0

CliIdle ==
    /\ invocation = None /\ cli_steps = <<>> /\ cli_out = None

InitMoney == MoneyIdle /\ PipeIdle /\ UrIdle /\ QrIdle /\ DeskIdle /\ CliIdle

SpecMoney == InitMoney /\ [][NextMoney]_vars

\* C6: for every Zatoshi v obtained through the API (so 1 <= v <= ZATOSHI_MAX),
\* from_zec_str(to_zec_string(v)) succeeds and returns exactly v.
C6_RoundTrip ==
    zop # None /\ zop.name = "roundtrip" => zres = Ok(zop.arg)

\* the round trip of a value whose fraction needs leading zeros and whose
\* trailing zeros were stripped (1.5 ZEC and 1 zatoshi both occur)
C6_Witness ==
    /\ zop # None /\ zop.name = "roundtrip"
    /\ zop.arg = <<0, 0, 10>>
    /\ zop.text = <<"0", ".", "0", "0", "0", "0", "0", "0", "1">>
    /\ zres = Ok(<<0, 0, 10>>)

\* C8: every Zatoshi the API hands out lies in [ZATOSHI_MIN, ZATOSHI_MAX]; a
\* constructor given an out-of-range u64 returns an error, never the value.
C8_RangeInvariant ==
    /\ acc # None => InRange(acc.some)
    /\ prev # None => InRange(prev.some)
    /\ IsOk(zres) => InRange(zres.val)
    /\ (zop # None /\ zop.name \in {"new", "try_from_u64"})
          => (zres.ok <=> InRange(zop.arg))

\* checked_add of two in-range values rejected because the sum passes the cap
C8_Witness ==
    /\ zop # None /\ zop.name = "checked_add"
    /\ InRange(zop.arg) /\ InRange(zop.other)
    /\ IsErr(zres) /\ zres.err.kind = "AboveMaximum"

(***************************************************************************)
(* Addresses (validation.rs 126-193, 361-455)                               *)
(***************************************************************************)
MAINNET_TADDR ==
    <<"t", "1", "H", "s", "c", "1", "L", "R", "8", "y", "K", "n", "b", "b", "e", "3", "t", "w",
      "R", "p", "8", "8", "p", "6", "v", "F", "f", "C", "5", "t", "7", "D", "L", "b", "s">>

MAINNET_SAPLING ==
    <<"z", "s", "1", "q", "q", "q", "q", "q", "q", "q", "q", "q", "q", "q", "q", "q", "q", "q",
      "q", "q", "q", "q", "q", "q", "q", "q", "q", "q", "q", "q", "q", "q", "q", "q", "q", "q",
      "q", "q", "q", "q", "q", "q", "q", "q", "q", "q", "q", "q", "q", "q", "q", "q", "q", "q",
      "q", "q", "q", "q", "q", "q", "q", "q", "q", "q", "q", "q", "q", "q", "q", "q", "q", "q",
      "p", "q", "6", "d", "8", "g">>

MAINNET_UNIFIED ==
    <<"u", "1", "q", "p", "a", "t", "y", "s", "4", "z", "r", "u", "k", "9", "9", "p", "g", "5",
      "9", "g", "c", "s", "c", "r", "t", "7", "y", "6", "a", "k", "v", "l", "9", "v", "r", "h",
      "c", "f", "y", "h", "m", "9", "y", "x", "v", "x", "z", "7", "h", "8", "7", "q", "6", "n",
      "8", "c", "g", "r", "z", "z", "p", "e", "9", "z", "r", "u", "6", "8", "u", "q", "3", "9",
      "u", "h", "m", "l", "p", "p", "5", "u", "e", "f", "x", "u", "0", "s", "u", "5", "u", "q",
      "y", "q", "f", "e", "5", "z", "p", "3", "t", "y", "c", "n", "0", "e", "c", "l">>

TESTNET_TADDR ==
    <<"t", "m", "9", "i", "M", "L", "A", "u", "Y", "M", "z", "J", "6", "j", "t", "F", "L", "c",
      "A", "7", "r", "z", "U", "m", "f", "r", "e", "G", "u", "K", "v", "r", "7", "M", "a">>

TESTNET_SAPLING ==
    <<"z", "t", "e", "s", "t", "s", "a", "p", "l", "i", "n", "g", "1", "q", "q", "q", "q", "q",
      "q", "q", "q", "q", "q", "q", "q", "q", "q", "q", "q", "q", "q", "q", "q", "q", "q", "q",
      "q", "q", "q", "q", "q", "q", "q", "q", "q", "q", "q", "q", "q", "q", "q", "q", "q", "q",
      "q", "q", "q", "q", "q", "q", "q", "q", "q", "q", "q", "q", "q", "q", "q", "q", "q", "q",
      "q", "q", "q", "q", "q", "q", "q", "q", "q", "q", "f", "h", "g", "w", "q", "u">>

TESTNET_UNIFIED ==
    <<"u", "t", "e", "s", "t", "1", "0", "c", "5", "k", "u", "t", "a", "p", "a", "z", "d", "n",
      "f", "8", "z", "t", "l", "3", "p", "u", "4", "3", "n", "k", "f", "s", "j", "x", "8", "9",
      "f", "y", "3", "u", "u", "f", "f", "8", "t", "s", "m", "x", "m", "6", "s", "8", "6", "j",
      "3", "7", "p", "e", "7", "u", "z", "9", "4", "z", "5", "j", "h", "k", "l", "4", "9", "p",
      "q", "e", "8", "y", "z", "7", "5", "r", "l", "s", "a", "y", "g", "e", "x", "k", "6", "j",
      "p", "a", "x", "w", "x", "0", "e", "s", "j", "r", "8", "w", "m", "5", "u", "t", "7", "d",
      "5", "s">>

NOT_AN_ADDRESS == <<"n", "o", "t", "-", "a", "n", "-", "a", "d", "d", "r", "e", "s", "s">>

\* the mainnet pay-to-script-hash address of the 20-byte hash of MAINNET_TADDR
MAINNET_P2SH ==
    <<"t", "3", "J", "Z", "c", "v", "s", "u", "a", "X", "E", "6", "y", "g", "o", "k", "L", "4", "X", "U", "i", "Z", "S", "T", "r", "Q", "B", "U", "o", "P", "Y", "F", "n", "X", "J">>

\* the testnet pay-to-script-hash address of the same hash
TESTNET_P2SH ==
    <<"t", "2", "6", "Y", "o", "y", "Z", "1", "i", "P", "g", "i", "M", "E", "W", "L", "4", "z", "G", "U", "m", "7", "4", "e", "V", "W", "f", "h", "y", "D", "M", "X", "z", "Y", "2">>

\* the mainnet TEX (ZIP 320) address of the same hash
MAINNET_TEX ==
    <<"t", "e", "x", "1", "q", "q", "q", "q", "q", "q", "q", "q", "q", "q", "q", "q", "q", "q", "q", "q", "q", "q", "q", "q", "q", "q", "q", "q", "q", "q", "q", "q", "q", "q", "q", "q", "3", "x", "v", "l", "x", "7">>

\* the testnet TEX address of the same hash
TESTNET_TEX ==
    <<"t", "e", "x", "t", "e", "s", "t", "1", "q", "q", "q", "q", "q", "q", "q", "q", "q", "q", "q", "q", "q", "q", "q", "q", "q", "q", "q", "q", "q", "q", "q", "q", "q", "q", "q", "q", "q", "q", "q", "q", "g", "g", "n", "f", "r", "9">>

\* a mainnet Sprout address
MAINNET_SPROUT ==
    <<"z", "c", "8", "E", "7", "R", "3", "S", "t", "i", "J", "q", "1", "T", "1", "U", "a", "C", "d", "y", "g", "a", "z", "u", "E", "V", "B", "e", "9", "x", "d", "d", "G", "d", "Y", "B", "L", "M", "e", "8", "W", "N", "g", "n", "B", "T", "V", "R", "G", "i", "G", "w", "Y", "9", "M", "E", "e", "V", "K", "q", "h", "W", "N", "t", "m", "b", "P", "m", "w", "i", "4", "S", "1", "u", "J", "t", "P", "o", "b", "q", "C", "q", "4", "a", "z", "u", "L", "J", "r", "K", "C", "F", "j", "c", "j">>

\* ZcashAddress::try_from_encoded on the addresses the model uses: the decoded
\* network and address family, or a parse error for anything else.
try_from_encoded(address) ==
    IF address = MAINNET_TADDR THEN Ok([net |-> "Main", family |-> "p2pkh"])
    ELSE IF address = MAINNET_SAPLING THEN Ok([net |-> "Main", family |-> "sapling"])
    ELSE IF address = MAINNET_UNIFIED THEN Ok([net |-> "Main", family |-> "unified"])
    ELSE IF address = TESTNET_TADDR THEN Ok([net |-> "Test", family |-> "p2pkh"])
    ELSE IF address = TESTNET_SAPLING THEN Ok([net |-> "Test", family |-> "sapling"])
    ELSE IF address = TESTNET_UNIFIED THEN Ok([net |-> "Test", family |-> "unified"])
    ELSE IF address = MAINNET_P2SH THEN Ok([net |-> "Main", family |-> "p2sh"])
    ELSE IF address = TESTNET_P2SH THEN Ok([net |-> "Test", family |-> "p2sh"])
    ELSE IF address = MAINNET_TEX THEN Ok([net |-> "Main", family |-> "tex"])
    ELSE IF address = TESTNET_TEX THEN Ok([net |-> "Test", family |-> "tex"])
    ELSE IF address = MAINNET_SPROUT THEN Ok([net |-> "Main", family |-> "sprout"])
    ELSE Err("ParseError")

\* impl TryFromAddress for ParsedAddressMeta, reached through parsed.convert()
convert_ParsedAddressMeta(parsed) ==
    CASE parsed.family = "sprout"  -> Err("sprout addresses are not supported")
      [] parsed.family = "sapling" -> Ok([network |-> parsed.net, kind |-> "Sapling"])
      [] parsed.family = "unified" -> Ok([network |-> parsed.net, kind |-> "Unified"])
      [] parsed.family \in {"p2pkh", "p2sh", "tex"}
                                   -> Ok([network |-> parsed.net, kind |-> "Transparent"])

\* a conversion that expects mainnet addresses whatever the configuration
network_type_AlwaysMain(network) == "Main"

\* fn network_type
network_type(network) == IF network = "Mainnet" THEN "Main" ELSE "Test"

\* BatchValidationIssue::new (the message is kept as a short tag)
Issue(code, row_number, column, message) ==
    [code |-> code, row_number |-> row_number, column |-> column, message |-> message]

\* the prefix cross-check of validate_address_row (validation.rs 406-452):
\* the message of the prefix error, or None when the prefix is accepted
PrefixError(kind, expected_network, address) ==
    IF kind = "Unified" /\ expected_network = "Mainnet" /\ ~StartsWith(address, <<"u", "1">>)
    THEN Some("invalid unified mainnet prefix")
    ELSE IF kind = "Unified" /\ expected_network = "Testnet"
            /\ ~StartsWith(address, <<"u", "t", "e", "s", "t", "1">>)
    THEN Some("invalid unified testnet prefix")
    ELSE IF kind = "Sapling" /\ expected_network = "Mainnet" /\ ~StartsWith(address, <<"z", "s">>)
    THEN Some("invalid sapling mainnet prefix")
    ELSE IF kind = "Sapling" /\ expected_network = "Testnet"
            /\ ~StartsWith(address, <<"z", "t", "e", "s", "t", "s", "a", "p", "l", "i", "n", "g">>)
    THEN Some("invalid sapling testnet prefix")
    ELSE IF kind = "Transparent" /\ expected_network = "Mainnet"
            /\ ~(StartsWith(address, <<"t", "1">>) \/ StartsWith(address, <<"t", "3">>))
    THEN Some("invalid transparent mainnet prefix")
    ELSE None

\* fn validate_address_row
validate_address_row(row, expected_network) ==
    LET address == Trim(row.address)
        addrIssue(code, msg) == Err(Issue(code, Some(row.row_number), Some("address"), msg))
    IN IF address = <<>> THEN addrIssue(1001, "address is empty")
       ELSE LET parsed == try_from_encoded(address)
            IN IF ~parsed.ok THEN addrIssue(1001, "invalid address encoding")
               ELSE LET metadata == convert_ParsedAddressMeta(parsed.val)
                    IN IF ~metadata.ok THEN addrIssue(1001, "unsupported address type")
                       ELSE IF metadata.val.network # network_type(expected_network)
                       THEN addrIssue(1005, "network mismatch")
                       ELSE LET p == PrefixError(metadata.val.kind, expected_network, address)
                            IN IF p # None THEN addrIssue(1001, p.some)
                               ELSE Ok(metadata.val.kind)

\* fn parse_zatoshis_str
parse_zatoshis_str(value) ==
    IF StartsWith(value, <<"-">>) THEN AmountErr("NegativeNotAllowed")
    ELSE IF value = <<>> THEN AmountErr("EmptyInput")
    ELSE IF ~AllDigits(value) THEN AmountErr("InvalidNumeric")
    ELSE LET parsed == U64Parse(value)
         IN IF parsed = None THEN AmountErr("Overflow") ELSE Zatoshi_new(parsed.some)

\* an amount check that prefers the decimal ZEC field
validate_amount_row_ZecFirst(row) ==
    LET parsed ==
            IF row.amount_zec # None
            THEN LET zec == Trim(row.amount_zec.some)
                 IN IF zec = <<>> THEN AmountErr("EmptyInput") ELSE from_zec_str(zec)
            ELSE IF row.amount_zatoshis # None
            THEN LET zat == Trim(row.amount_zatoshis.some)
                 IN IF zat = <<>> THEN AmountErr("EmptyInput") ELSE parse_zatoshis_str(zat)
            ELSE AmountErr("EmptyInput")
    IN IF parsed.ok THEN parsed
       ELSE Err(Issue(1002, Some(row.row_number), Some("amount"), parsed.err.kind))

\* fn validate_amount_row
validate_amount_row(row) ==
    LET parsed ==
            IF row.amount_zatoshis # None
            THEN LET zat == Trim(row.amount_zatoshis.some)
                 IN IF zat = <<>> THEN AmountErr("EmptyInput") ELSE parse_zatoshis_str(zat)
            ELSE IF row.amount_zec # None
            THEN LET zec == Trim(row.amount_zec.some)
                 IN IF zec = <<>> THEN AmountErr("EmptyInput") ELSE from_zec_str(zec)
            ELSE AmountErr("EmptyInput")
    IN IF parsed.ok THEN parsed
       ELSE Err(Issue(1002, Some(row.row_number), Some("amount"), parsed.err.kind))

\* UTF-8 encodings of the non-ASCII characters the model uses (a character
\* outside ASCII is written as its code point name)
NonAsciiUtf8 == ("U+00E9" :> <<195, 169>>) @@ ("U+20AC" :> <<226, 130, 172>>)

CharLen(c) == IF c \in DOMAIN NonAsciiUtf8 THEN Len(NonAsciiUtf8[c]) ELSE 1

\* the bytes beyond one per character that the occurrences of the non-ASCII
\* characters in cs add to the UTF-8 length of s
RECURSIVE ExtraBytes(_, _)
ExtraBytes(s, cs) ==
    IF cs = {} THEN 0
    ELSE LET c == CHOOSE x \in cs : TRUE
         IN Cardinality({i \in 1..Len(s) : s[i] = c}) * (CharLen(c) - 1)
            + ExtraBytes(s, cs \ {c})

\* str::len: the length in UTF-8 bytes
ByteLen(s) == Len(s) + ExtraBytes(s, DOMAIN NonAsciiUtf8)

MEMO_MAX_BYTES == 512

\* a memo check that counts characters
validate_memo_row_CountsChars(row) ==
    IF row.memo = None THEN Ok(None)
    ELSE IF Len(row.memo.some) > MEMO_MAX_BYTES
    THEN Err(Issue(1004, Some(row.row_number), Some("memo"), "memo exceeds 512 bytes"))
    ELSE Ok(Some(row.memo.some))

\* fn validate_memo_row
validate_memo_row(row) ==
    IF row.memo = None THEN Ok(None)
    ELSE IF ByteLen(row.memo.some) > MEMO_MAX_BYTES
    THEN Err(Issue(1004, Some(row.row_number), Some("memo"), "memo exceeds 512 bytes"))
    ELSE Ok(Some(row.memo.some))

(***************************************************************************)
(* validate_batch (validation.rs 195-313)                                   *)
(***************************************************************************)
BATCH_LIMIT_CEILING == 500

\* the recipient cap of validate_batch (validation.rs 210-214)
\* a limit that trusts the configured value above the ceiling
batch_limit_NoCeiling(cfg) ==
    IF cfg.max_recipients = 0 THEN BATCH_LIMIT_CEILING ELSE cfg.max_recipients

batch_limit(cfg) ==
    IF cfg.max_recipients = 0 THEN BATCH_LIMIT_CEILING
    ELSE IF cfg.max_recipients < BATCH_LIMIT_CEILING THEN cfg.max_recipients
    ELSE BATCH_LIMIT_CEILING

\* the batch-level issues raised before the rows are read (validation.rs 201-226)
BatchLevelIssues(rs, cfg) ==
    (IF rs = <<>>
     THEN <<Issue(1012, None, None, "batch has no rows")>>
     ELSE <<>>)
    \o (IF Len(rs) > batch_limit(cfg)
        THEN <<Issue(1011, None, None, "too many rows")>>
        ELSE <<>>)

\* a validator that stops at the first failing column of a row
ColumnIssues_FirstOnly(address_result, amount_result, memo_result) ==
    IF ~address_result.ok THEN <<address_result.err>>
    ELSE IF ~amount_result.ok THEN <<amount_result.err>>
    ELSE IF ~memo_result.ok THEN <<memo_result.err>>
    ELSE <<>>

\* the issues of one row, in the order address, amount, memo (validation.rs 230-242)
ColumnIssues(address_result, amount_result, memo_result) ==
    (IF address_result.ok THEN <<>> ELSE <<address_result.err>>)
    \o (IF amount_result.ok THEN <<>> ELSE <<amount_result.err>>)
    \o (IF memo_result.ok THEN <<>> ELSE <<memo_result.err>>)

\* a running total that keeps the first amount and ignores the later ones
AddToTotal_KeepFirst(total, amount, row_number) ==
    IF total = None THEN [total |-> Some(amount), issues |-> <<>>]
    ELSE [total |-> total, issues |-> <<>>]

\* a running total that stays where it is on overflow and says nothing
AddToTotal_Silent(total, amount, row_number) ==
    IF total = None THEN [total |-> Some(amount), issues |-> <<>>]
    ELSE LET next == checked_add(total.some, amount)
         IN [total |-> IF next.ok THEN Some(next.val) ELSE total, issues |-> <<>>]

\* a running total limited by the width of u64 only
AddToTotal_Uncapped(total, amount, row_number) ==
    IF total = None THEN [total |-> Some(amount), issues |-> <<>>]
    ELSE [total |-> U64CheckedAdd(total.some, amount), issues |-> <<>>]

\* the running total after a validated row (validation.rs 269-280): the new
\* total and the overflow issue, if any
AddToTotal(total, amount, row_number) ==
    IF total = None THEN [total |-> Some(amount), issues |-> <<>>]
    ELSE LET next == checked_add(total.some, amount)
         IN IF next.ok
            THEN [total |-> Some(next.val), issues |-> <<>>]
            ELSE [total |-> total,
                  issues |-> <<Issue(1013, Some(row_number), Some("amount"),
                                     "batch total overflow while summing zatoshis")>>]

\* a row loop that looks duplicates up by the address as written, untrimmed
RowStep_RawAddressKey(st, row, cfg) ==
    LET address_result == validate_address_row(row, cfg.network)
        amount_result  == validate_amount_row(row)
        memo_result    == validate_memo_row(row)
        colIssues      == ColumnIssues(address_result, amount_result, memo_result)
    IN IF ~(address_result.ok /\ amount_result.ok /\ memo_result.ok)
       THEN [st EXCEPT !.issues = @ \o colIssues]
       ELSE
        LET address_type == address_result.val
            amount == amount_result.val
            dropMemo == address_type = "Transparent"
                        /\ memo_result.val # None /\ memo_result.val.some # <<>>
            memo == IF dropMemo THEN None ELSE memo_result.val
            memoWarn == IF dropMemo
                        THEN <<[kind |-> "memo ignored for transparent address",
                                row |-> row.row_number]>>
                        ELSE <<>>
            normalized_address == Trim(row.address)
            isDup == row.address \in DOMAIN st.seen
            dupWarn == IF isDup
                       THEN <<[kind |-> "duplicate address",
                               address |-> normalized_address,
                               row |-> row.row_number,
                               first_row |-> st.seen[row.address]]>>
                       ELSE <<>>
            sum == AddToTotal(st.total, amount, row.row_number)
        IN [issues    |-> st.issues \o colIssues \o sum.issues,
            warnings  |-> st.warnings \o memoWarn \o dupWarn,
            validated |-> Append(st.validated,
                            [row_number |-> row.row_number,
                             address_type |-> address_type,
                             recipient |->
                                [address |-> normalized_address,
                                 amount |-> amount,
                                 memo |-> memo,
                                 label |-> IF row.label = None THEN None
                                           ELSE Some(Trim(row.label.some))]]),
            seen      |-> IF isDup THEN st.seen
                          ELSE (row.address :> row.row_number) @@ st.seen,
            total     |-> sum.total]

\* a row loop that leaves the memo of a transparent recipient in place
RowStep_KeepMemo(st, row, cfg) ==
    LET address_result == validate_address_row(row, cfg.network)
        amount_result  == validate_amount_row(row)
        memo_result    == validate_memo_row(row)
        colIssues      == ColumnIssues(address_result, amount_result, memo_result)
    IN IF ~(address_result.ok /\ amount_result.ok /\ memo_result.ok)
       THEN [st EXCEPT !.issues = @ \o colIssues]
       ELSE
        LET address_type == address_result.val
            amount == amount_result.val
            dropMemo == FALSE
            memo == IF dropMemo THEN None ELSE memo_result.val
            memoWarn == IF dropMemo
                        THEN <<[kind |-> "memo ignored for transparent address",
                                row |-> row.row_number]>>
                        ELSE <<>>
            normalized_address == Trim(row.address)
            isDup == normalized_address \in DOMAIN st.seen
            dupWarn == IF isDup
                       THEN <<[kind |-> "duplicate address",
                               address |-> normalized_address,
                               row |-> row.row_number,
                               first_row |-> st.seen[normalized_address]]>>
                       ELSE <<>>
            sum == AddToTotal(st.total, amount, row.row_number)
        IN [issues    |-> st.issues \o colIssues \o sum.issues,
            warnings  |-> st.warnings \o memoWarn \o dupWarn,
            validated |-> Append(st.validated,
                            [row_number |-> row.row_number,
                             address_type |-> address_type,
                             recipient |->
                                [address |-> normalized_address,
                                 amount |-> amount,
                                 memo |-> memo,
                                 label |-> IF row.label = None THEN None
                                           ELSE Some(Trim(row.label.some))]]),
            seen      |-> IF isDup THEN st.seen
                          ELSE (normalized_address :> row.row_number) @@ st.seen,
            total     |-> sum.total]

\* one iteration of the row loop (validation.rs 229-292) on the loop state
\* st = [issues, warnings, validated, seen, total]
RowStep(st, row, cfg) ==
    LET address_result == validate_address_row(row, cfg.network)
        amount_result  == validate_amount_row(row)
        memo_result    == validate_memo_row(row)
        colIssues      == ColumnIssues(address_result, amount_result, memo_result)
    IN IF ~(address_result.ok /\ amount_result.ok /\ memo_result.ok)
       THEN [st EXCEPT !.issues = @ \o colIssues]
       ELSE
        LET address_type == address_result.val
            amount == amount_result.val
            dropMemo == address_type = "Transparent"
                        /\ memo_result.val # None /\ memo_result.val.some # <<>>
            memo == IF dropMemo THEN None ELSE memo_result.val
            memoWarn == IF dropMemo
                        THEN <<[kind |-> "memo ignored for transparent address",
                                row |-> row.row_number]>>
                        ELSE <<>>
            normalized_address == Trim(row.address)
            isDup == normalized_address \in DOMAIN st.seen
            dupWarn == IF isDup
                       THEN <<[kind |-> "duplicate address",
                               address |-> normalized_address,
                               row |-> row.row_number,
                               first_row |-> st.seen[normalized_address]]>>
                       ELSE <<>>
            sum == AddToTotal(st.total, amount, row.row_number)
        IN [issues    |-> st.issues \o colIssues \o sum.issues,
            warnings  |-> st.warnings \o memoWarn \o dupWarn,
            validated |-> Append(st.validated,
                            [row_number |-> row.row_number,
                             address_type |-> address_type,
                             recipient |->
                                [address |-> normalized_address,
                                 amount |-> amount,
                                 memo |-> memo,
                                 label |-> IF row.label = None THEN None
                                           ELSE Some(Trim(row.label.some))]]),
            seen      |-> IF isDup THEN st.seen
                          ELSE (normalized_address :> row.row_number) @@ st.seen,
            total     |-> sum.total]

\* the row loop over rs[lo..hi], in order, threading the loop state (the
\* range is walked by halves, the state after the first half being computed
\* before the second half starts, to keep the evaluation shallow)
RECURSIVE RowLoop(_, _, _, _, _)
RowLoop(st, rs, lo, hi, cfg) ==
    IF lo > hi THEN st
    ELSE IF lo = hi THEN RowStep(st, rs[lo], cfg)
    ELSE LET mid == (lo + hi) \div 2
             left == RowLoop(st, rs, lo, mid, cfg)
         IN IF Len(left.validated) <= mid
            THEN RowLoop(left, rs, mid + 1, hi, cfg)
            ELSE left

BatchValidationError(issues) == Err([variant |-> "BatchValidation", issues |-> issues])

\* an assembler that hands back the rows that did validate
BatchOutcome_Partial(st, cfg) ==
    IF st.total = None
    THEN Err([variant |-> "BatchValidation",
              issues |-> st.issues \o <<Issue(1012, None, None, "batch has no valid recipients")>>])
    ELSE Ok([recipients |-> st.validated,
             total |-> st.total.some,
             network |-> cfg.network,
             warnings |-> st.warnings])

\* what validate_batch returns for the final loop state (validation.rs 294-312)
BatchOutcome(st, cfg) ==
    IF st.issues # <<>> THEN BatchValidationError(st.issues)
    ELSE IF st.total = None
    THEN BatchValidationError(<<Issue(1012, None, None, "batch has no valid recipients")>>)
    ELSE Ok([recipients |-> st.validated,
             total |-> st.total.some,
             network |-> cfg.network,
             warnings |-> st.warnings])

\* pub fn validate_batch
validate_batch(rs, cfg) ==
    LET st0 == [issues |-> BatchLevelIssues(rs, cfg), warnings |-> <<>>,
                validated |-> <<>>, seen |-> <<>>, total |-> None]
    IN BatchOutcome(RowLoop(st0, rs, 1, Len(rs), cfg), cfg)

(***************************************************************************)
(* ZIP-321 construction (zip321.rs)                                         *)
(***************************************************************************)
\* the printable ASCII characters, from code 32 (space) to 126 (tilde); the
\* grave accent (code 96) is written as its code point name
AsciiPrintable ==
    <<" ", "!", "\"", "#", "$", "%", "&", "'", "(", ")", "*", "+", ",", "-", ".", "/", "0",
      "1", "2", "3", "4", "5", "6", "7", "8", "9", ":", ";", "<", "=", ">", "?", "@", "A", "B",
      "C", "D", "E", "F", "G", "H", "I", "J", "K", "L", "M", "N", "O", "P", "Q", "R", "S", "T",
      "U", "V", "W", "X", "Y", "Z", "[", "\\", "]", "^", "_", "U+0060", "a", "b", "c", "d", "e",
      "f", "g", "h", "i", "j", "k", "l", "m", "n", "o", "p", "q", "r", "s", "t", "u", "v", "w",
      "x", "y", "z", "{", "|", "}", "~">>

AsciiCode(c) == 31 + (CHOOSE i \in 1..Len(AsciiPrintable) : AsciiPrintable[i] = c)

\* the UTF-8 bytes of one character
Utf8(c) == IF c \in DOMAIN NonAsciiUtf8 THEN NonAsciiUtf8[c] ELSE <<AsciiCode(c)>>

\* str::as_bytes
as_bytes(s) == Concat([i \in 1..Len(s) |-> Utf8(s[i])])

\* the alphabet of base64::engine::general_purpose::STANDARD
Base64Alphabet ==
    <<"A", "B", "C", "D", "E", "F", "G", "H", "I", "J", "K", "L", "M", "N", "O", "P", "Q", "R",
      "S", "T", "U", "V", "W", "X", "Y", "Z", "a", "b", "c", "d", "e", "f", "g", "h", "i", "j",
      "k", "l", "m", "n", "o", "p", "q", "r", "s", "t", "u", "v", "w", "x", "y", "z", "0", "1",
      "2", "3", "4", "5", "6", "7", "8", "9", "+", "/">>

B64(n) == Base64Alphabet[n + 1]

\* STANDARD.encode of the group of up to 3 bytes starting at data[i]: 4
\* characters, '=' padding when the group is short
Base64Group(data, i) ==
    LET n == Len(data) - i + 1
    IN IF n = 1
       THEN <<B64(data[i] \div 4), B64((data[i] % 4) * 16), "=", "=">>
       ELSE IF n = 2
       THEN <<B64(data[i] \div 4),
              B64((data[i] % 4) * 16 + (data[i + 1] \div 16)),
              B64((data[i + 1] % 16) * 4), "=">>
       ELSE <<B64(data[i] \div 4),
              B64((data[i] % 4) * 16 + (data[i + 1] \div 16)),
              B64((data[i + 1] % 16) * 4 + (data[i + 2] \div 64)),
              B64(data[i + 2] % 64)>>

\* pub fn base64_encode
base64_encode(data) ==
    Concat([g \in 1..((Len(data) + 2) \div 3) |-> Base64Group(data, 3 * g - 2)])

\* the memo parameter of one recipient: memo.as_deref().filter(|m| !m.is_empty())
MemoParam(validated, suffix) ==
    LET memo == validated.recipient.memo
    IN IF memo # None /\ memo.some # <<>>
       THEN <<<<"m", "e", "m", "o">> \o suffix \o <<"=">> \o base64_encode(as_bytes(memo.some))>>
       ELSE <<>>

\* a renderer that numbers every recipient, the first one included
RecipientParams_AllSuffixed(validated, index) ==
    LET suffix == <<".">> \o NatToString(index)
    IN <<<<"a", "d", "d", "r", "e", "s", "s">> \o suffix \o <<"=">> \o validated.recipient.address,
         <<"a", "m", "o", "u", "n", "t">> \o suffix \o <<"=">> \o to_zec_string(validated.recipient.amount)>>
       \o MemoParam(validated, suffix)

\* the parameters of the recipient at 0-based position index (zip321.rs 48-66)
RecipientParams(validated, index) ==
    LET suffix == IF index = 0 THEN <<>> ELSE <<".">> \o NatToString(index)
    IN <<<<"a", "d", "d", "r", "e", "s", "s">> \o suffix \o <<"=">> \o validated.recipient.address,
         <<"a", "m", "o", "u", "n", "t">> \o suffix \o <<"=">> \o to_zec_string(validated.recipient.amount)>>
       \o MemoParam(validated, suffix)

AllParams(recipients) ==
    Concat([i \in 1..Len(recipients) |-> RecipientParams(recipients[i], i - 1)])

\* pub fn build_zip321_uri
build_zip321_uri(recipients) ==
    IF recipients = <<>> THEN <<"z", "c", "a", "s", "h", ":">>
    ELSE IF Len(recipients) = 1
    THEN LET params == <<<<"a", "m", "o", "u", "n", "t", "=">> \o to_zec_string(recipients[1].recipient.amount)>>
                       \o MemoParam(recipients[1], <<>>)
         IN <<"z", "c", "a", "s", "h", ":">> \o recipients[1].recipient.address
            \o <<"?">> \o Join(params, <<"&">>)
    ELSE <<"z", "c", "a", "s", "h", ":", "?">> \o Join(AllParams(recipients), <<"&">>)

TaxonomyError(code, message) == Err([variant |-> "Taxonomy", code |-> code, message |-> message])

\* one iteration of the loop of sum_total on st = [total, failed]; once the
\* `?` has returned Err(()) the remaining recipients are not read
SumStep(st, validated) ==
    IF st.failed THEN st
    ELSE IF st.total = None
    THEN [total |-> Some(validated.recipient.amount), failed |-> FALSE]
    ELSE LET next == checked_add(st.total.some, validated.recipient.amount)
         IN IF next.ok THEN [total |-> Some(next.val), failed |-> FALSE]
            ELSE [total |-> None, failed |-> TRUE]

\* the loop of sum_total over recipients[lo..hi], in order (walked by halves)
RECURSIVE SumLoop(_, _, _, _)
SumLoop(st, recipients, lo, hi) ==
    IF lo > hi THEN st
    ELSE IF lo = hi THEN SumStep(st, recipients[lo])
    ELSE LET mid == (lo + hi) \div 2
             left == SumLoop(st, recipients, lo, mid)
         IN IF left.failed THEN left
            ELSE SumLoop(left, recipients, mid + 1, hi)

\* fn sum_total (zip321.rs 118-130, batch.rs 117-128): None stands for Err(())
sum_total(recipients) ==
    SumLoop([total |-> None, failed |-> FALSE], recipients, 1, Len(recipients)).total

\* Sha256::digest, Uuid::new_v5 and the timestamp reduction are kept symbolic:
\* each is a fixed function of the bytes it is given.
Sha256(bytes) == [sha256_of |-> bytes]

ZIP321_UUID_NAMESPACE == "4f68b80f-0ec5-52f4-8357-0b6b89df8754"

Uuid_new_v5(namespace, name) == [uuid_v5_namespace |-> namespace, name |-> name]

\* a timestamp read from the wall clock at the time of the call
clock_created_at(digest) == [wall_clock |-> now]

\* fn deterministic_created_at: the first 8 digest bytes mod 253402300799, as
\* seconds since the Unix epoch
deterministic_created_at(digest) == [epoch_seconds_from_digest |-> digest]

\* a construction that copies the total field of the batch
construct_zip321_CopiesTotal(b) ==
    IF b.recipients = <<>>
    THEN TaxonomyError(1012, "cannot construct ZIP-321 URI for empty recipient set")
    ELSE LET uri == build_zip321_uri(b.recipients)
             digest == Sha256(uri)
         IN Ok([schema_version |-> "1.0",
                id |-> Uuid_new_v5(ZIP321_UUID_NAMESPACE, digest),
                created_at |-> deterministic_created_at(digest),
                network |-> b.network,
                recipients |-> [i \in 1..Len(b.recipients) |-> b.recipients[i].recipient],
                total_zat |-> b.total,
                zip321_uri |-> uri,
                payload_bytes |-> ByteLen(uri),
                payload_hash |-> [prefix |-> "sha256:", lower_hex |-> digest]])

\* pub fn construct_zip321
construct_zip321(b) ==
    IF b.recipients = <<>>
    THEN TaxonomyError(1012, "cannot construct ZIP-321 URI for empty recipient set")
    ELSE LET uri == build_zip321_uri(b.recipients)
             digest == Sha256(uri)
             total_zat == sum_total(b.recipients)
         IN IF total_zat = None
            THEN TaxonomyError(1013, "overflow while summing recipients for ZIP-321 construction")
            ELSE Ok([schema_version |-> "1.0",
                     id |-> Uuid_new_v5(ZIP321_UUID_NAMESPACE, digest),
                     created_at |-> deterministic_created_at(digest),
                     network |-> b.network,
                     recipients |-> [i \in 1..Len(b.recipients) |-> b.recipients[i].recipient],
                     total_zat |-> total_zat.some,
                     zip321_uri |-> uri,
                     payload_bytes |-> ByteLen(uri),
                     payload_hash |-> [prefix |-> "sha256:", lower_hex |-> digest]])

(***************************************************************************)
(* Segmentation (batch.rs)                                                  *)
(***************************************************************************)
\* fn construct_segment
construct_segment(recipients, network) ==
    LET total == sum_total(recipients)
    IN IF total = None
       THEN TaxonomyError(1013, "overflow while summing segment recipients")
       ELSE construct_zip321([recipients |-> recipients, total |-> total.some,
                              network |-> network, warnings |-> <<>>])

PayloadLimitError(row_number, max_payload_bytes) ==
    TaxonomyError(1010, [text |-> "single recipient exceeds payload limit",
                         row |-> row_number, limit |-> max_payload_bytes])

\* a packer that never closes a segment: every recipient joins the open one
SegmentStep_Unbounded(st, b, recipient, max_payload_bytes) ==
    [st EXCEPT !.current = Append(@, recipient)]

\* a packer that starts the fresh segment without measuring it
SegmentStep_NoRecheck(st, b, recipient, max_payload_bytes) ==
    IF st.failed # None THEN st
    ELSE
      LET pushed == Append(st.current, recipient)
      IN IF ByteLen(build_zip321_uri(pushed)) <= max_payload_bytes
         THEN [st EXCEPT !.current = pushed]
         ELSE IF st.current = <<>>
         THEN [st EXCEPT !.failed =
                  PayloadLimitError(recipient.row_number, max_payload_bytes)]
         ELSE LET closed == construct_segment(st.current, b.network)
              IN IF ~closed.ok THEN [st EXCEPT !.failed = closed]
                 ELSE [current |-> <<recipient>>,
                       segments |-> Append(st.segments, closed.val),
                       failed |-> None]

\* a packer that treats every overrun as fatal instead of rolling over
SegmentStep_NoRollover(st, b, recipient, max_payload_bytes) ==
    IF st.failed # None THEN st
    ELSE
      LET pushed == Append(st.current, recipient)
      IN IF ByteLen(build_zip321_uri(pushed)) <= max_payload_bytes
         THEN [st EXCEPT !.current = pushed]
         ELSE [st EXCEPT !.failed =
                  PayloadLimitError(recipient.row_number, max_payload_bytes)]

\* a packing loop that closes the segment at every second recipient whether
\* or not the budget is reached
SegmentStep_ClosesEarly(st, b, recipient, max_payload_bytes) ==
    IF st.failed # None THEN st
    ELSE IF ByteLen(build_zip321_uri(<<recipient>>)) > max_payload_bytes
    THEN [st EXCEPT !.failed = PayloadLimitError(recipient.row_number, max_payload_bytes)]
    ELSE IF st.current = <<>> THEN [st EXCEPT !.current = <<recipient>>]
    ELSE LET closed == construct_segment(st.current, b.network)
         IN IF ~closed.ok THEN [st EXCEPT !.failed = closed]
            ELSE [current |-> <<recipient>>,
                  segments |-> Append(st.segments, closed.val),
                  failed |-> None]

\* one iteration of the packing loop of segment_batch (batch.rs 34-68) on
\* st = [current, segments, failed]: `failed` holds the error once the function
\* has returned early, and the remaining recipients are then not read
SegmentStep(st, b, recipient, max_payload_bytes) ==
    IF st.failed # None THEN st
    ELSE
      LET pushed == Append(st.current, recipient)
      IN IF ByteLen(build_zip321_uri(pushed)) <= max_payload_bytes
         THEN [st EXCEPT !.current = pushed]
         ELSE IF st.current = <<>>
         THEN [st EXCEPT !.failed =
                  PayloadLimitError(recipient.row_number, max_payload_bytes)]
         ELSE LET closed == construct_segment(st.current, b.network)
              IN IF ~closed.ok THEN [st EXCEPT !.failed = closed]
                 ELSE IF ByteLen(build_zip321_uri(<<recipient>>)) > max_payload_bytes
                 THEN [current |-> <<recipient>>,
                       segments |-> Append(st.segments, closed.val),
                       failed |-> PayloadLimitError(recipient.row_number,
                                                    max_payload_bytes)]
                 ELSE [current |-> <<recipient>>,
                       segments |-> Append(st.segments, closed.val),
                       failed |-> None]

\* the packing loop over b.recipients[lo..hi], in order (walked by halves)
RECURSIVE SegmentLoop(_, _, _, _, _)
SegmentLoop(st, b, lo, hi, max_payload_bytes) ==
    IF lo > hi THEN st
    ELSE IF lo = hi THEN SegmentStep(st, b, b.recipients[lo], max_payload_bytes)
    ELSE LET mid == (lo + hi) \div 2
             left == SegmentLoop(st, b, lo, mid, max_payload_bytes)
         IN IF left.failed # None THEN left
            ELSE SegmentLoop(left, b, mid + 1, hi, max_payload_bytes)

\* a return that leaves out the recipients still in `current`
FinishSegments_NoFlush(st, b, max_payload_bytes) ==
    IF st.failed # None THEN st.failed
    ELSE Ok([segments |-> st.segments,
             max_payload_bytes |-> max_payload_bytes,
             original_recipient_count |-> Len(b.recipients)])

\* the flush after the loop and the returned value (batch.rs 70-78)
FinishSegments(st, b, max_payload_bytes) ==
    IF st.failed # None THEN st.failed
    ELSE LET last == IF st.current # <<>>
                     THEN construct_segment(st.current, b.network) ELSE None
         IN IF last # None /\ ~last.ok THEN last
            ELSE Ok([segments |-> IF last = None THEN st.segments
                                  ELSE Append(st.segments, last.val),
                     max_payload_bytes |-> max_payload_bytes,
                     original_recipient_count |-> Len(b.recipients)])

\* a segmentation that looks at the recipients before the budget
segment_batch_EmptyFirst(b, max_payload_bytes) ==
    IF b.recipients = <<>>
    THEN TaxonomyError(1012, "cannot segment an empty validated batch")
    ELSE IF max_payload_bytes = 0
    THEN TaxonomyError(1005, "max_payload_bytes must be greater than zero")
    ELSE FinishSegments(
            SegmentLoop([current |-> <<>>, segments |-> <<>>, failed |-> None],
                        b, 1, Len(b.recipients), max_payload_bytes),
            b, max_payload_bytes)

\* pub fn segment_batch
segment_batch(b, max_payload_bytes) ==
    IF max_payload_bytes = 0
    THEN TaxonomyError(1005, "max_payload_bytes must be greater than zero")
    ELSE IF b.recipients = <<>>
    THEN TaxonomyError(1012, "cannot segment an empty validated batch")
    ELSE FinishSegments(
            SegmentLoop([current |-> <<>>, segments |-> <<>>, failed |-> None],
                        b, 1, Len(b.recipients), max_payload_bytes),
            b, max_payload_bytes)

(***************************************************************************)
(* Pipeline specifications.                                                 *)
(*   Spec:       rows -> validate_batch -> segment_batch                    *)
(*   SpecIntent: rows -> validate_batch -> construct_zip321, called any     *)
(*               number of times while the wall clock advances              *)
(***************************************************************************)
MaxRows == 2
MaxClock == 1

RawRow(address, amount_zec, amount_zatoshis, memo, label) ==
    [address |-> address, amount_zec |-> amount_zec,
     amount_zatoshis |-> amount_zatoshis, memo |-> memo, label |-> label]

\* the rows a parser can hand over, before numbering (validation.rs tests 571-928)
SampleRows ==
    { RawRow(MAINNET_TADDR, Some(<<"1", ".", "5">>), None, Some(<<"o", "k">>),
             Some(<<" ", "a", "l", "i", "c", "e", " ">>)),
      RawRow(MAINNET_SAPLING, None, Some(<<"1", "0", "0", "0">>), None, None),
      RawRow(MAINNET_SAPLING, Some(<<"0", ".", "0", "0", "0", "0", "0", "0", "0", "1">>), None, Some(<<"h", "i">>), None),
      RawRow(NOT_AN_ADDRESS, Some(<<"1">>), None, None, None),
      RawRow(NOT_AN_ADDRESS, Some(<<"a", "b", "c">>), None,
             Some(Repeat("x", MEMO_MAX_BYTES + 1)), None),
      RawRow(<<>>, None, None, None, None),
      RawRow(MAINNET_TADDR, None, Some(<<"2", "1", "0", "0", "0", "0", "0", "0", "0", "0", "0", "0", "0", "0", "0", "0">>), None, None),
      RawRow(TESTNET_TADDR, Some(<<"1">>), None, None, None),
      RawRow(<<" ">> \o MAINNET_TADDR \o <<" ">>, Some(<<"1">>), None, None, None),
      RawRow(MAINNET_UNIFIED, Some(<<"a", "b", "c">>), Some(<<"5">>), None, None),
      RawRow(MAINNET_TADDR, None, Some(<<"-", "1">>), None, None),
      RawRow(MAINNET_TADDR, Some(<<"1">>), None, Some(Repeat("x", MEMO_MAX_BYTES + 1)), None) }

\* rows are numbered from 1 in input order
Numbered(shapes) ==
    [i \in 1..Len(shapes) |->
        [row_number |-> i, address |-> shapes[i].address,
         amount_zec |-> shapes[i].amount_zec,
         amount_zatoshis |-> shapes[i].amount_zatoshis,
         memo |-> shapes[i].memo, label |-> shapes[i].label]]

RowSeqs == UNION {[1..n -> SampleRows] : n \in 0..MaxRows}

SampleConfigs ==
    { [network |-> "Mainnet", max_recipients |-> 500],
      [network |-> "Mainnet", max_recipients |-> 0],
      [network |-> "Mainnet", max_recipients |-> 1],
      [network |-> "Mainnet", max_recipients |-> 1000],
      [network |-> "Testnet", max_recipients |-> 500] }

\* row lists at the hard ceiling and one row above it
LargeRowSeqs ==
    { [i \in 1..n |-> RawRow(MAINNET_SAPLING, None, Some(<<"1", "0", "0", "0">>), None, None)]
      : n \in {BATCH_LIMIT_CEILING, BATCH_LIMIT_CEILING + 1} }

\* fn recipient(index) of the batch.rs tests (151-162)
test_recipient(index) ==
    [row_number |-> index + 1,
     address_type |-> "Transparent",
     recipient |-> [address |-> MAINNET_TADDR, amount |-> <<0, 0, 1>>,
                    memo |-> Some(<<"m", "e", "m", "o", "-">> \o NatToString(index)),
                    label |-> None]]

\* Zatoshi total of n recipients of 1 zatoshi (n < ZATOSHI_PER_ZEC)
\* fn batch_with_count(count) of the batch.rs tests (164-177)
batch_with_count(count) ==
    [recipients |-> [i \in 1..count |-> test_recipient(i - 1)],
     total |-> <<0, 0, count>>,
     network |-> "Mainnet",
     warnings |-> <<>>]

TestRecipient(row_number, amount, memo) ==
    [row_number |-> row_number, address_type |-> "Transparent",
     recipient |-> [address |-> MAINNET_TADDR, amount |-> amount,
                    memo |-> memo, label |-> None]]

\* fn vr of the zip321.rs tests (172-188)
vr(row_number, address, amount_zat, memo) ==
    [row_number |-> row_number, address_type |-> "Transparent",
     recipient |-> [address |-> address, amount |-> amount_zat,
                    memo |-> memo, label |-> None]]

\* the recipient lists of the zip321.rs tests (204-265), as batches
ZipTestBatches ==
    { [recipients |-> <<vr(1, MAINNET_TADDR, <<0, 1, 50000000>>, Some(<<"h", "e", "l", "l", "o">>))>>,
       total |-> <<0, 1, 50000000>>, network |-> "Mainnet", warnings |-> <<>>],
      [recipients |-> <<vr(1, MAINNET_TADDR, <<0, 1, 0>>, Some(<<"a">>)),
                        vr(2, MAINNET_SAPLING, <<0, 0, 1>>, Some(<<"b">>))>>,
       total |-> <<0, 1, 1>>, network |-> "Mainnet", warnings |-> <<>>],
      [recipients |-> <<vr(1, MAINNET_TADDR, <<0, 0, 1>>, Some(Repeat("x", MEMO_MAX_BYTES))),
                        vr(2, MAINNET_SAPLING, <<0, 0, 1>>, Some(<<>>))>>,
       total |-> <<0, 0, 2>>, network |-> "Mainnet", warnings |-> <<>>],
      [recipients |-> <<vr(1, MAINNET_SAPLING, <<0, 0, 1>>, Some(<<>>))>>,
       total |-> <<0, 0, 1>>, network |-> "Mainnet", warnings |-> <<>>] }

\* ValidatedBatch values built by a caller through the public fields, as the
\* batch.rs tests do (179-302)
CallerBatches ==
    { batch_with_count(100),
      batch_with_count(4),
      [recipients |-> <<>>, total |-> <<0, 0, 1>>, network |-> "Mainnet", warnings |-> <<>>],
      [recipients |-> <<TestRecipient(1, <<0, 0, 1>>, Some(Repeat("x", 400)))>>,
       total |-> <<0, 0, 1>>, network |-> "Mainnet", warnings |-> <<>>],
      [recipients |-> <<TestRecipient(1, <<0, 0, 1>>, None),
                        TestRecipient(2, <<0, 0, 1>>, Some(Repeat("y", 300)))>>,
       total |-> <<0, 0, 2>>, network |-> "Mainnet", warnings |-> <<>>],
      [recipients |-> <<TestRecipient(1, ZATOSHI_MAX, None),
                        TestRecipient(2, <<0, 0, 1>>, None)>>,
       total |-> ZATOSHI_MAX, network |-> "Mainnet", warnings |-> <<>>],
      [recipients |-> <<TestRecipient(1, <<0, 0, 1>>, None),
                        TestRecipient(2, <<0, 0, 2>>, None)>>,
       total |-> <<0, 0, 7>>, network |-> "Mainnet", warnings |-> <<>>] }
    \cup ZipTestBatches

\* max_payload_bytes values handed to segment_batch
Budgets == {0, 56, 80, 120, 163, 164, 250, 350, 1000}

\* the input in hand: rows still to validate, or a caller-built batch
Init ==
    /\ MoneyIdle /\ DeskIdle /\ CliIdle /\ UrIdle /\ QrIdle
    /\ vres = None /\ budget = 0 /\ sres = None /\ now = 0 /\ calls = {}
    /\ \/ /\ \E shapes \in RowSeqs \cup LargeRowSeqs : rows = Numbered(shapes)
          /\ config \in SampleConfigs
          /\ batch = None
       \/ /\ rows = <<>>
          /\ config = None
          /\ \E b \in CallerBatches : batch = Some(b)

Validate ==
    /\ config # None /\ vres = None
    /\ vres' = validate_batch(rows, config)
    /\ batch' = IF vres'.ok THEN Some(vres'.val) ELSE None
    /\ UNCHANGED <<rows, config, budget, sres, now, calls, moneyVars, deskVars, cliVars, urVars, qrVars>>

Construct ==
    /\ batch # None
    /\ calls' = calls \cup {[recipients |-> batch.some.recipients,
                             network |-> batch.some.network,
                             at |-> now,
                             out |-> construct_zip321(batch.some)]}
    /\ UNCHANGED <<rows, config, vres, batch, budget, sres, now, moneyVars, deskVars, cliVars, urVars, qrVars>>

Segment ==
    /\ batch # None /\ sres = None
    /\ \E k \in Budgets :
        /\ budget' = k
        /\ sres' = segment_batch(batch.some, k)
    /\ UNCHANGED <<rows, config, vres, batch, now, calls, moneyVars, deskVars, cliVars, urVars, qrVars>>

Tick ==
    /\ now < MaxClock
    /\ now' = now + 1
    /\ UNCHANGED <<rows, config, vres, batch, budget, sres, calls, moneyVars, deskVars, cliVars, urVars, qrVars>>

Next == Validate \/ Segment

Spec == Init /\ [][Next]_vars

NextIntent == Validate \/ Construct \/ Tick

SpecIntent == Init /\ [][NextIntent]_vars

(***************************************************************************)
(* Properties of validate_batch, checked under Spec                         *)
(***************************************************************************)
\* C1: validate_batch is all-or-nothing. It returns a ValidatedBatch only when
\* no row failed a column check and no batch-level issue was raised, and then
\* the batch holds every row; as soon as one row is invalid the result is an
\* error that carries the (non-empty) issue collection and no recipient at
\* all, whatever the other rows are.
C1_AllOrNothing ==
    vres # None =>
        LET failing == {i \in 1..Len(rows) :
                            \/ ~validate_address_row(rows[i], config.network).ok
                            \/ ~validate_amount_row(rows[i]).ok
                            \/ ~validate_memo_row(rows[i]).ok}
        IN /\ vres.ok => /\ failing = {}
                         /\ BatchLevelIssues(rows, config) = <<>>
                         /\ Len(vres.val.recipients) = Len(rows)
           /\ failing # {} => /\ ~vres.ok
                              /\ vres.err.issues # <<>>
                              /\ DOMAIN vres = {"ok", "err"}
                              /\ DOMAIN vres.err = {"variant", "issues"}
                              /\ batch = None

\* a two-row batch whose first row is valid and whose second is not is rejected
C1_Witness ==
    /\ vres # None /\ Len(rows) = 2 /\ ~vres.ok
    /\ validate_address_row(rows[1], config.network).ok
    /\ validate_amount_row(rows[1]).ok
    /\ validate_memo_row(rows[1]).ok
    /\ ~validate_address_row(rows[2], config.network).ok
    /\ batch = None

\* C3: validate_batch never short-circuits. For every row, and for each of
\* the address, amount and memo columns that fails on that row, the returned
\* issue collection holds an issue with that row's number and that column's
\* name, also when an earlier row, an earlier column of the same row or the
\* batch as a whole has already failed.
C3_NoShortCircuit ==
    vres # None =>
        \A i \in 1..Len(rows) :
            LET reported(column) ==
                    /\ ~vres.ok
                    /\ \E j \in 1..Len(vres.err.issues) :
                          /\ vres.err.issues[j].row_number = Some(i)
                          /\ vres.err.issues[j].column = Some(column)
            IN /\ ~validate_address_row(rows[i], config.network).ok => reported("address")
               /\ ~validate_amount_row(rows[i]).ok => reported("amount")
               /\ ~validate_memo_row(rows[i]).ok => reported("memo")

\* row 1 fails on its address only, row 2 on all three columns: four issues
C3_Witness ==
    /\ vres # None /\ Len(rows) = 2 /\ ~vres.ok
    /\ ~validate_address_row(rows[1], config.network).ok
    /\ validate_amount_row(rows[1]).ok
    /\ ~validate_address_row(rows[2], config.network).ok
    /\ ~validate_amount_row(rows[2]).ok
    /\ ~validate_memo_row(rows[2]).ok
    /\ Len(vres.err.issues) = 4

\* C4: the total of every returned ValidatedBatch is the sum of the amounts
\* of all its recipients, and that sum lies in [ZATOSHI_MIN, ZATOSHI_MAX].
C4_TotalIsCheckedSum ==
    (vres # None /\ vres.ok) =>
        LET RECURSIVE AmountSum(_, _, _)
            AmountSum(rs, lo, hi) ==
                IF lo > hi THEN <<0, 0, 0>>
                ELSE IF lo = hi THEN rs[lo].recipient.amount
                ELSE U64CheckedAdd(AmountSum(rs, lo, (lo + hi) \div 2),
                                   AmountSum(rs, (lo + hi) \div 2 + 1, hi)).some
            sum == AmountSum(vres.val.recipients, 1, Len(vres.val.recipients))
        IN /\ vres.val.total = sum
           /\ U64Le(ZATOSHI_MIN, sum) /\ U64Le(sum, ZATOSHI_MAX)

\* a batch of two recipients of different amounts was returned
C4_Witness ==
    /\ vres # None /\ vres.ok /\ Len(vres.val.recipients) = 2
    /\ vres.val.recipients[1].recipient.amount # vres.val.recipients[2].recipient.amount
    /\ vres.val.total = <<0, 1, 50001000>>

(***************************************************************************)
(* Properties of segment_batch, checked under Spec                          *)
(***************************************************************************)
\* C2: whenever segment_batch(B, k) succeeds for a positive budget k, the
\* recipient counts of the produced segments sum to Len(B.recipients), which
\* is also the recorded original_recipient_count, and the encoded URI of
\* every produced segment is at most k bytes long.
C2_SegmentsCoverWithinBudget ==
    (batch # None /\ sres # None /\ sres.ok /\ budget > 0) =>
        LET segments == sres.val.segments
            RECURSIVE Count(_, _)
            Count(lo, hi) ==
                IF lo > hi THEN 0
                ELSE IF lo = hi THEN Len(segments[lo].recipients)
                ELSE Count(lo, (lo + hi) \div 2) + Count((lo + hi) \div 2 + 1, hi)
        IN /\ Count(1, Len(segments)) = Len(batch.some.recipients)
           /\ sres.val.original_recipient_count = Len(batch.some.recipients)
           /\ \A n \in 1..Len(segments) :
                 /\ ByteLen(segments[n].zip321_uri) <= budget
                 /\ segments[n].payload_bytes <= budget

\* the 100-recipient batch packed under 350 bytes gives several segments,
\* some of them holding more than one recipient
C2_Witness ==
    /\ batch = Some(batch_with_count(100)) /\ budget = 350
    /\ sres # None /\ sres.ok
    /\ Len(sres.val.segments) > 1
    /\ \E n \in 1..Len(sres.val.segments) : Len(sres.val.segments[n].recipients) > 1

\* C9: for a non-empty batch whose amounts sum within range and a positive
\* budget, segment_batch fails with code 1010 exactly when some recipient's
\* single-recipient URI is longer than the budget; the error then names the
\* row of the first such recipient and the budget, and carries no segment.
C9_PayloadLimitIff ==
    (/\ batch # None /\ sres # None /\ budget > 0
     /\ batch.some.recipients # <<>>
     /\ sum_total(batch.some.recipients) # None) =>
        LET recipients == batch.some.recipients
            oversize == {i \in 1..Len(recipients) :
                            ByteLen(build_zip321_uri(<<recipients[i]>>)) > budget}
            first == CHOOSE i \in oversize : \A j \in oversize : i <= j
        IN /\ oversize = {} => sres.ok
           /\ oversize # {} =>
                 /\ ~sres.ok
                 /\ sres.err.code = 1010
                 /\ sres.err.message.row = recipients[first].row_number
                 /\ sres.err.message.limit = budget
                 /\ DOMAIN sres = {"ok", "err"}

\* the second recipient does not fit beside the first and, rolled over into a
\* fresh segment, does not fit alone either
C9_Witness ==
    /\ batch # None /\ sres # None /\ ~sres.ok /\ Len(batch.some.recipients) = 2
    /\ ByteLen(build_zip321_uri(<<batch.some.recipients[1]>>)) <= budget
    /\ ByteLen(build_zip321_uri(<<batch.some.recipients[2]>>)) > budget
    /\ sres.err.code = 1010 /\ sres.err.message.row = 2

\* C10 (as stated): segmenting the batch of 100 recipients of 1 zatoshi each
\* with an 80-byte budget fails with code 1010.
C10_AsStated ==
    (batch = Some(batch_with_count(100)) /\ budget = 80 /\ sres # None) =>
        (~sres.ok /\ sres.err.code = 1010)

\* C10 (as the code behaves): every single-recipient URI of that batch is at
\* most 80 bytes long, so with an 80-byte budget segmentation succeeds and
\* returns 100 segments of one recipient each; it fails with code 1010 only
\* for a budget below the longest single-recipient URI (77 bytes).
C10_HundredSingletons ==
    (batch = Some(batch_with_count(100)) /\ sres # None /\ budget > 0) =>
        LET longest == 77
        IN /\ \A i \in 1..100 :
                ByteLen(build_zip321_uri(<<batch.some.recipients[i]>>)) <= longest
           /\ \E i \in 1..100 :
                ByteLen(build_zip321_uri(<<batch.some.recipients[i]>>)) = longest
           /\ budget >= longest => sres.ok
           /\ budget = 80 =>
                /\ Len(sres.val.segments) = 100
                /\ \A n \in 1..100 : Len(sres.val.segments[n].recipients) = 1
           /\ budget < 73 => (~sres.ok /\ sres.err.code = 1010)

C10_Witness ==
    /\ batch = Some(batch_with_count(100)) /\ budget = 80
    /\ sres # None /\ sres.ok /\ Len(sres.val.segments) = 100

(***************************************************************************)
(* Properties of construct_zip321, checked under SpecIntent                 *)
(***************************************************************************)
\* C7: construct_zip321 is a function of the recipient list and the network
\* alone. Every recorded call has the outcome that a call made now, on a
\* batch with the same recipients and network but any total and warnings,
\* would have, with the same id, created_at, zip321_uri and payload_hash,
\* whatever the wall clock showed when the call was made.
C7_Deterministic ==
    \A c \in calls :
        LET again == construct_zip321([recipients |-> c.recipients,
                                       total |-> ZATOSHI_MAX,
                                       network |-> c.network,
                                       warnings |-> <<"other">>])
        IN /\ again.ok = c.out.ok
           /\ c.out.ok =>
                /\ again.val.id = c.out.val.id
                /\ again.val.created_at = c.out.val.created_at
                /\ again.val.zip321_uri = c.out.val.zip321_uri
                /\ again.val.payload_hash = c.out.val.payload_hash
           /\ \A d \in calls :
                (d.recipients = c.recipients /\ d.network = c.network) => d.out = c.out

\* the same validated batch was turned into an intent at two clock readings
C7_Witness ==
    \E c, d \in calls :
        /\ c.at # d.at /\ c.recipients = d.recipients /\ c.network = d.network
        /\ c.out.ok /\ Len(c.recipients) = 2 /\ vres # None
        /\ c.out.val.id = d.out.val.id

(***************************************************************************)
(* Multi-part UR codec (ur_encoder.rs).                                     *)
(* The ur crate that ur_encoder.rs drives is not part of the source tree;   *)
(* its fragmenting and reassembly are modelled from the framing format and  *)
(* the reassembly contract of the specification: a message is cut into      *)
(* equal-length fragments, the last one zero-padded, and each part carries  *)
(* its 1-based index, the part count, the message length and a checksum.    *)
(* A fragment string is [text, body]: the "ur:bytes/<i>-<n>/" header as     *)
(* characters, and the bytewords body kept as the part it encodes.          *)
(***************************************************************************)
IndexOf(s, c) ==
    LET at == {i \in 1..Len(s) : s[i] = c}
    IN IF at = {} THEN 0 ELSE CHOOSE i \in at : \A j \in at : i <= j

DivCeil(a, b) == (a + b - 1) \div b

\* the checksum of a message, kept symbolic
Crc32(bytes) == [crc32_of |-> bytes]

\* the length of the fragments a message of data_length bytes is cut into
fragment_length(data_length, max_fragment_length) ==
    DivCeil(data_length, DivCeil(data_length, max_fragment_length))

\* the message cut into fragments of fragment_len bytes, the last one padded
\* with zero bytes
partition(message, fragment_len) ==
    [k \in 1..DivCeil(Len(message), fragment_len) |->
        [j \in 1..fragment_len |->
            LET at == (k - 1) * fragment_len + j
            IN IF at <= Len(message) THEN message[at] ELSE 0]]

\* ur::Encoder::bytes
Encoder_bytes(message, max_fragment_length) ==
    IF message = <<>> THEN Err("EmptyMessage")
    ELSE IF max_fragment_length = 0 THEN Err("InvalidFragmentLen")
    ELSE Ok([ur_type |-> <<"b", "y", "t", "e", "s">>,
             message_length |-> Len(message),
             checksum |-> Crc32(message),
             fragments |-> partition(message, fragment_length(Len(message),
                                                              max_fragment_length)),
             current_sequence |-> 0])

\* ur::Encoder::fragment_count
Encoder_fragment_count(encoder) == Len(encoder.fragments)

\* the bytewords body of a part, kept as the part it encodes
Bytewords(part) == [bytewords |-> part]

\* ur::Encoder::next_part, for the first fragment_count parts (each of them
\* carries one fragment): the part string and the advanced encoder
Encoder_next_part(encoder) ==
    LET sequence == encoder.current_sequence + 1
        count == Len(encoder.fragments)
        part == [sequence |-> sequence,
                 sequence_count |-> count,
                 message_length |-> encoder.message_length,
                 checksum |-> encoder.checksum,
                 data |-> encoder.fragments[sequence]]
    IN [encoder |-> [encoder EXCEPT !.current_sequence = sequence],
        part |-> Ok([text |-> <<"u", "r", ":">> \o encoder.ur_type \o <<"/">>
                              \o NatToString(sequence) \o <<"-">>
                              \o NatToString(count) \o <<"/">>,
                     body |-> Bytewords(part)])]

\* ur::decode: the header must read ur:<type>/<index>-<total>/ with decimal
\* indices and the body must be a bytewords encoding
decode(value) ==
    IF ~StartsWith(value.text, <<"u", "r", ":">>) THEN Err("InvalidScheme")
    ELSE LET strip_scheme == SubSeq(value.text, 4, Len(value.text))
             slash == IndexOf(strip_scheme, "/")
         IN IF slash = 0 THEN Err("TypeUnspecified")
            ELSE LET indices == SubSeq(strip_scheme, slash + 1, Len(strip_scheme) - 1)
                     dash == IndexOf(indices, "-")
                 IN IF strip_scheme[Len(strip_scheme)] # "/" \/ slash = Len(strip_scheme)
                    THEN Err("NotMultiPart")
                    ELSE IF dash = 0 THEN Err("InvalidIndices")
                    ELSE LET idx == SubSeq(indices, 1, dash - 1)
                             idx_total == SubSeq(indices, dash + 1, Len(indices))
                         IN IF idx = <<>> \/ idx_total = <<>>
                               \/ ~AllDigits(idx) \/ ~AllDigits(idx_total)
                            THEN Err("InvalidIndices")
                            ELSE IF "bytewords" \notin DOMAIN value.body
                            THEN Err("Bytewords")
                            ELSE Ok(value.body.bytewords)

\* ur::Decoder::default
Decoder_default == [expected |-> None, received |-> <<>>]

\* whether every fragment of the message has been received
Decoder_complete(decoder) ==
    /\ decoder.expected # None
    /\ DOMAIN decoder.received = 1..decoder.expected.some.sequence_count

\* ur::Decoder::receive, for parts that carry one fragment
Decoder_receive(decoder, value) ==
    LET decoded == decode(value)
    IN IF ~decoded.ok THEN decoded
       ELSE LET part == decoded.val
                shape == [sequence_count |-> part.sequence_count,
                          message_length |-> part.message_length,
                          checksum |-> part.checksum,
                          fragment_length |-> Len(part.data)]
            IN IF Decoder_complete(decoder) THEN Ok(decoder)
               ELSE IF part.sequence_count = 0 \/ part.data = <<>>
                       \/ part.sequence \notin 1..part.sequence_count
               THEN Err("EmptyPart")
               ELSE IF decoder.expected # None /\ decoder.expected.some # shape
               THEN Err("InconsistentPart")
               ELSE Ok([expected |-> Some(shape),
                        received |-> (part.sequence :> part.data) @@ decoder.received])

\* ur::Decoder::message: the fragments in index order, cut to the message
\* length, once all of them are there
Decoder_message(decoder) ==
    IF ~Decoder_complete(decoder) THEN Ok(None)
    ELSE LET joined == Concat([k \in 1..decoder.expected.some.sequence_count |->
                                  decoder.received[k]])
             message == SubSeq(joined, 1, decoder.expected.some.message_length)
         IN IF Crc32(message) # decoder.expected.some.checksum
            THEN Err("ChecksumMismatch")
            ELSE Ok(Some(message))

\* the emit loop of encode_ur_fragments (ur_encoder.rs 27-35): `remaining`
\* calls of next_part, the first error returned at once
RECURSIVE EmitLoop(_, _, _)
EmitLoop(encoder, fragments, remaining) ==
    IF remaining = 0 THEN Ok(fragments)
    ELSE LET next == Encoder_next_part(encoder)
         IN IF ~next.part.ok
            THEN TaxonomyError(5006, "failed to emit UR fragment")
            ELSE EmitLoop(next.encoder, Append(fragments, next.part.val), remaining - 1)

\* an encoder that stops one part short of the fragment count
encode_ur_fragments_OneShort(payload_bytes, max_fragment_len) ==
    IF payload_bytes = <<>>
    THEN TaxonomyError(5005, "UR payload must not be empty")
    ELSE IF max_fragment_len = 0
    THEN TaxonomyError(5005, "UR max fragment length must be greater than zero")
    ELSE LET encoder == Encoder_bytes(payload_bytes, max_fragment_len)
         IN IF ~encoder.ok THEN TaxonomyError(5005, "failed to create UR encoder")
            ELSE EmitLoop(encoder.val, <<>>, Encoder_fragment_count(encoder.val) - 1)

\* pub fn encode_ur_fragments
encode_ur_fragments(payload_bytes, max_fragment_len) ==
    IF payload_bytes = <<>>
    THEN TaxonomyError(5005, "UR payload must not be empty")
    ELSE IF max_fragment_len = 0
    THEN TaxonomyError(5005, "UR max fragment length must be greater than zero")
    ELSE LET encoder == Encoder_bytes(payload_bytes, max_fragment_len)
         IN IF ~encoder.ok THEN TaxonomyError(5005, "failed to create UR encoder")
            ELSE EmitLoop(encoder.val, <<>>, Encoder_fragment_count(encoder.val))

\* a receive loop that passes over the fragments the decoder refuses
RECURSIVE ReceiveLoop_SkipsRefused(_, _, _)
ReceiveLoop_SkipsRefused(decoder, fragments, from) ==
    IF from > Len(fragments) THEN Ok(decoder)
    ELSE LET received == Decoder_receive(decoder, fragments[from])
         IN ReceiveLoop_SkipsRefused(IF received.ok THEN received.val ELSE decoder,
                                     fragments, from + 1)

\* the receive loop of decode_ur_fragments (ur_encoder.rs 48-56) over
\* fragments[from..], the first error returned at once
RECURSIVE ReceiveLoop(_, _, _)
ReceiveLoop(decoder, fragments, from) ==
    IF from > Len(fragments) THEN Ok(decoder)
    ELSE LET received == Decoder_receive(decoder, fragments[from])
         IN IF ~received.ok
            THEN TaxonomyError(5007, "failed to decode UR fragment")
            ELSE ReceiveLoop(received.val, fragments, from + 1)

\* pub fn decode_ur_fragments
decode_ur_fragments(fragments) ==
    IF fragments = <<>>
    THEN TaxonomyError(5007, "UR fragment list must not be empty")
    ELSE LET decoder == ReceiveLoop(Decoder_default, fragments, 1)
         IN IF ~decoder.ok THEN decoder
            ELSE LET message == Decoder_message(decoder.val)
                 IN IF ~message.ok
                    THEN TaxonomyError(5008, "failed to finalize UR decode")
                    ELSE IF message.val = None
                    THEN TaxonomyError(5008,
                            "UR decoder is incomplete after all provided fragments")
                    ELSE Ok(message.val.some)

(***************************************************************************)
(* Codec specification: a payload is fragmented, the fragments are handed   *)
(* over in some order, all or part of them, and reassembled                 *)
(***************************************************************************)
MaxPayloadLen == 4
MaxFragmentLen == 3

\* the byte values payloads are made of (zero is also the padding byte)
SampleBytes == {0, 65}

Payloads == UNION {[1..n -> SampleBytes] : n \in 0..MaxPayloadLen}

\* the sequences of distinct indices among 1..n
Orders(n) ==
    UNION {{o \in [1..k -> 1..n] : \A i, j \in 1..k : i # j => o[i] # o[j]} : k \in 1..n}

InitUr ==
    /\ MoneyIdle /\ DeskIdle /\ CliIdle /\ PipeIdle /\ QrIdle
    /\ payload \in Payloads
    /\ fraglen \in 0..MaxFragmentLen
    /\ eres = None /\ supplied = <<>> /\ dres = None

UrEncode ==
    /\ eres = None
    /\ eres' = encode_ur_fragments(payload, fraglen)
    /\ UNCHANGED <<payload, fraglen, supplied, dres, moneyVars, deskVars, cliVars, pipeVars, qrVars>>

\* the receiver gets some of the fragments, in some order
UrSupply ==
    /\ eres # None /\ eres.ok /\ supplied = <<>> /\ dres = None
    /\ \E order \in Orders(Len(eres.val)) :
          supplied' = [i \in 1..Len(order) |-> eres.val[order[i]]]
    /\ UNCHANGED <<payload, fraglen, eres, dres, moneyVars, deskVars, cliVars, pipeVars, qrVars>>

UrDecode ==
    /\ eres # None /\ dres = None
    /\ dres' = decode_ur_fragments(supplied)
    /\ UNCHANGED <<payload, fraglen, eres, supplied, moneyVars, deskVars, cliVars, pipeVars, qrVars>>

NextUr == UrEncode \/ UrSupply \/ UrDecode

SpecUr == InitUr /\ [][NextUr]_vars

\* C5: for every non-empty payload p and positive fragment size s, the
\* fragments of encode_ur_fragments(p, s), supplied all together in any
\* order, are decoded by decode_ur_fragments to exactly p.
C5_RoundTripAnyOrder ==
    (payload # <<>> /\ fraglen > 0 /\ eres # None) =>
        /\ eres.ok
        /\ (/\ dres # None
            /\ Len(supplied) = Len(eres.val)
            /\ {supplied[i] : i \in 1..Len(supplied)}
                  = {eres.val[i] : i \in 1..Len(eres.val)})
           => dres = Ok(payload)

\* a payload ending in zero bytes, cut into two fragments with padding,
\* supplied last fragment first
C5_Witness ==
    /\ payload = <<65, 0, 0>> /\ fraglen = 2
    /\ eres # None /\ eres.ok /\ Len(eres.val) = 2
    /\ supplied = <<eres.val[2], eres.val[1]>>
    /\ dres = Ok(payload)

(***************************************************************************)
(* Properties of build_zip321_uri, checked under SpecIntent                 *)
(***************************************************************************)
\* C11: the URI of every constructed intent has the ZIP-321 shape. One
\* recipient gives zcash:<address>?amount=<amt>[&memo=<base64>]; n >= 2
\* recipients give zcash:? followed, in list order, by address, amount and
\* memo of each recipient, the first without suffix and the recipient at
\* 0-based position i >= 1 with suffix .i; the memo parameter is there
\* exactly when the recipient's memo is present and non-empty.
C11_UriShape ==
    \A c \in calls :
        c.out.ok =>
            LET rs == c.recipients
                hasMemo(i) == rs[i].recipient.memo # None /\ rs[i].recipient.memo.some # <<>>
                suffix(i) == IF i = 1 THEN <<>> ELSE <<".">> \o NatToString(i - 1)
                amt(i) == to_zec_string(rs[i].recipient.amount)
                memo64(i) == base64_encode(as_bytes(rs[i].recipient.memo.some))
                memoPart(i) ==
                    IF hasMemo(i)
                    THEN <<"&", "m", "e", "m", "o">> \o suffix(i) \o <<"=">> \o memo64(i)
                    ELSE <<>>
                block(i) ==
                    (IF i = 1 THEN <<>> ELSE <<"&">>)
                    \o <<"a", "d", "d", "r", "e", "s", "s">> \o suffix(i) \o <<"=">>
                    \o rs[i].recipient.address
                    \o <<"&", "a", "m", "o", "u", "n", "t">> \o suffix(i) \o <<"=">> \o amt(i)
                    \o memoPart(i)
                expected ==
                    IF Len(rs) = 1
                    THEN <<"z", "c", "a", "s", "h", ":">> \o rs[1].recipient.address
                         \o <<"?", "a", "m", "o", "u", "n", "t", "=">> \o amt(1) \o memoPart(1)
                    ELSE <<"z", "c", "a", "s", "h", ":", "?">>
                         \o Concat([i \in 1..Len(rs) |-> block(i)])
            IN c.out.val.zip321_uri = expected

\* the two-recipient list of the zip321.rs tests gives the URI the test expects
C11_Witness ==
    \E c \in calls :
        /\ c.out.ok /\ Len(c.recipients) = 2
        /\ c.recipients[2].recipient.memo = Some(<<"b">>)
        /\ c.out.val.zip321_uri =
             <<"z", "c", "a", "s", "h", ":", "?", "a", "d", "d", "r", "e", "s", "s", "=", "t", "1", "H", "s", "c", "1", "L", "R", "8", "y", "K", "n", "b", "b", "e", "3", "t", "w", "R", "p", "8", "8", "p", "6", "v", "F", "f", "C", "5", "t", "7", "D", "L", "b", "s", "&", "a", "m", "o", "u", "n", "t", "=", "1", "&", "m", "e", "m", "o", "=", "Y", "Q", "=", "=", "&", "a", "d", "d", "r", "e", "s", "s", ".", "1", "=", "z", "s", "1", "q", "q", "q", "q", "q", "q", "q", "q", "q", "q", "q", "q", "q", "q", "q", "q", "q", "q", "q", "q", "q", "q", "q", "q", "q", "q", "q", "q", "q", "q", "q", "q", "q", "q", "q", "q", "q", "q", "q", "q", "q", "q", "q", "q", "q", "q", "q", "q", "q", "q", "q", "q", "q", "q", "q", "q", "q", "q", "q", "q", "q", "q", "q", "q", "q", "q", "q", "q", "q", "p", "q", "6", "d", "8", "g", "&", "a", "m", "o", "u", "n", "t", ".", "1", "=", "0", ".", "0", "0", "0", "0", "0", "0", "0", "1", "&", "m", "e", "m", "o", ".", "1", "=", "Y", "g", "=", "=">>

(***************************************************************************)
(* QR output (qr.rs).                                                       *)
(* QrCode::with_error_correction_level(data, EcLevel::M) succeeds exactly   *)
(* when the bit stream of data fits the largest symbol (version 40) at      *)
(* level M. The segmentation the encoder chooses is not modelled: a string  *)
(* that fits in byte mode is encoded, a string whose cheapest conceivable   *)
(* encoding is too long is refused, and in between both outcomes are kept.  *)
(***************************************************************************)
PAYLOAD_LIMIT_QR_STATIC == 2510
DEFAULT_UR_FRAGMENT_LEN == 150

\* data bits of a version 40 symbol at error correction level M (2334 codewords)
QR_V40_M_DATA_BITS == 18672

\* the characters of the QR alphanumeric mode other than the digits
QrAlphanumeric ==
    {"A", "B", "C", "D", "E", "F", "G", "H", "I", "J", "K", "L", "M", "N", "O", "P", "Q", "R",
     "S", "T", "U", "V", "W", "X", "Y", "Z", " ", "$", "%", "*", "+", "-", ".", "/", ":"}

\* bits of s in byte mode: mode indicator, 16-bit count, 8 bits per byte
QrByteModeBits(s) == 4 + 16 + 8 * ByteLen(s)

\* six times a lower bound on the bits of s under any segmentation: 10 bits
\* per 3 digits, 11 bits per 2 alphanumeric characters, 13 bits per 2 bytes
\* of a double-byte character, 8 bits per other byte, mode headers left out
QrMinBitsTimes6(s) ==
    LET digits == Cardinality({i \in 1..Len(s) : IsDigit(s[i])})
        alnum  == Cardinality({i \in 1..Len(s) : s[i] \in QrAlphanumeric})
        wide   == ByteLen(s) - Len(s)
                  + Cardinality({i \in 1..Len(s) : s[i] \in DOMAIN NonAsciiUtf8})
        plain  == ByteLen(s) - digits - alnum - wide
    IN 20 * digits + 33 * alnum + 39 * wide + 48 * plain

\* the size of the QR bit stream of a string: an upper and a lower bound
QrCostOfString(s) == [max_bits |-> QrByteModeBits(s), min_bits6 |-> QrMinBitsTimes6(s)]

\* the size of the QR bit stream of a UR part string: its header, and two
\* lower-case letters per byte of the part (fragment, at most 38 bytes of
\* part header, 4 bytes of checksum), all in byte mode
QrCostOfFragment(fragment) ==
    LET chars == Len(fragment.text) + 2 * (Len(fragment.body.bytewords.data) + 38 + 4)
    IN [max_bits |-> 4 + 16 + 8 * chars, min_bits6 |-> 0]

\* the PNG rendering of a QR symbol, kept as the data it shows
Png(data) == [png_of_qr |-> data]

\* pub fn generate_qr_png: the results it can return for data whose bit
\* stream has the given cost
generate_qr_png(data, cost) ==
    (IF cost.min_bits6 <= 6 * QR_V40_M_DATA_BITS THEN {Ok(Png(data))} ELSE {})
    \cup (IF cost.max_bits > QR_V40_M_DATA_BITS
          THEN {TaxonomyError(5003, "failed to encode QR data")} ELSE {})

\* pub fn generate_qr: the results it can return
generate_qr(it) ==
    LET payload_bytes == ByteLen(it.zip321_uri)
    IN IF payload_bytes <= PAYLOAD_LIMIT_QR_STATIC
       THEN { IF png.ok
              THEN Ok([mode |-> "Static",
                       frames |-> <<[index |-> 0, png_bytes |-> png.val,
                                     data |-> it.zip321_uri]>>,
                       total_frames |-> 1,
                       payload_bytes |-> payload_bytes])
              ELSE png
              : png \in generate_qr_png(it.zip321_uri, QrCostOfString(it.zip321_uri)) }
       ELSE LET fragments == encode_ur_fragments(as_bytes(it.zip321_uri),
                                                 DEFAULT_UR_FRAGMENT_LEN)
            IN IF ~fragments.ok THEN {fragments}
               ELSE LET pngs == [i \in 1..Len(fragments.val) |->
                                    generate_qr_png(fragments.val[i],
                                                    QrCostOfFragment(fragments.val[i]))]
                        refused == UNION {{png \in pngs[i] : ~png.ok} :
                                              i \in 1..Len(fragments.val)}
                    IN refused
                       \cup (IF \A i \in 1..Len(fragments.val) : \E png \in pngs[i] : png.ok
                             THEN {Ok([mode |-> "AnimatedUr",
                                       frames |-> [i \in 1..Len(fragments.val) |->
                                                     [index |-> i - 1,
                                                      png_bytes |-> Png(fragments.val[i]),
                                                      data |-> fragments.val[i]]],
                                       total_frames |-> Len(fragments.val),
                                       payload_bytes |-> payload_bytes])}
                             ELSE {})

\* fn intent_with_recipients(count) of the qr.rs tests (120-146), count >= 1
intent_with_recipients(count) ==
    construct_zip321(
        [recipients |-> [i \in 1..count |->
                            [row_number |-> i,
                             address_type |-> "Transparent",
                             recipient |-> [address |-> MAINNET_TADDR,
                                            amount |-> <<0, 0, 1>>,
                                            memo |-> Some(<<"m", "e", "m", "o", "-">>
                                                          \o PadZero(NatToString(i - 1), 3)),
                                            label |-> None]]],
         total |-> <<0, 0, count>>,
         network |-> "Mainnet",
         warnings |-> <<>>]).val

\* the intent of a batch of count payments of 1.5 ZEC to a Sapling address,
\* without memos (count >= 1)
intent_with_shielded(count) ==
    construct_zip321(
        [recipients |-> [i \in 1..count |->
                            [row_number |-> i,
                             address_type |-> "Shielded",
                             recipient |-> [address |-> MAINNET_SAPLING,
                                            amount |-> <<0, 1, 50000000>>,
                                            memo |-> None,
                                            label |-> None]]],
         total |-> <<0, count + count \div 2, (count % 2) * 50000000>>,
         network |-> "Mainnet",
         warnings |-> <<>>]).val

(***************************************************************************)
(* QR specification: an intent is rendered as QR frames, and the frames    *)
(* are read back                                                            *)
(***************************************************************************)
MaxQrRecipients == 30

\* the intents handed to generate_qr: the intents of the qr.rs tests for
\* every recipient count up to the bound and for 100 recipients, and
\* intents paying shielded addresses
QrIntents ==
    {intent_with_recipients(n) : n \in 1..MaxQrRecipients}
    \cup {intent_with_shielded(n) : n \in 1..MaxQrRecipients}
    \cup {intent_with_recipients(100)}

InitQr ==
    /\ MoneyIdle /\ DeskIdle /\ CliIdle /\ PipeIdle /\ UrIdle
    /\ \E it \in QrIntents : intent = Some(it)
    /\ qres = None /\ scanned = None

GenerateQr ==
    /\ intent # None /\ qres = None
    /\ qres' \in generate_qr(intent.some)
    /\ UNCHANGED <<intent, scanned, moneyVars, deskVars, cliVars, pipeVars, urVars>>

\* the frames are read back as the qr.rs tests do (168-174, 188-203): the
\* data of a static frame is the payload, the data of animated frames goes
\* through the UR decoder
ScanFrames ==
    /\ qres # None /\ qres.ok /\ scanned = None
    /\ scanned' = IF qres.val.mode = "Static"
                  THEN Ok(as_bytes(qres.val.frames[1].data))
                  ELSE decode_ur_fragments([i \in 1..Len(qres.val.frames) |->
                                               qres.val.frames[i].data])
    /\ UNCHANGED <<intent, qres, moneyVars, deskVars, cliVars, pipeVars, urVars>>

NextQr == GenerateQr \/ ScanFrames

SpecQr == InitQr /\ [][NextQr]_vars

\* C12: once generate_qr has returned for an intent, a URI of at most
\* PAYLOAD_LIMIT_QR_STATIC bytes has given a Static output of exactly one
\* frame (index 0) whose data is the URI, and a longer URI has given an
\* AnimatedUr output of more than one frame, total_frames equal to the
\* number of frames, whose frames read back to exactly the URI bytes.
C12_AsStated ==
    qres # None =>
        LET uri == intent.some.zip321_uri
        IN IF ByteLen(uri) <= PAYLOAD_LIMIT_QR_STATIC
           THEN /\ qres.ok
                /\ qres.val.mode = "Static"
                /\ Len(qres.val.frames) = 1
                /\ qres.val.total_frames = 1
                /\ qres.val.frames[1].index = 0
                /\ qres.val.frames[1].data = uri
           ELSE /\ qres.ok
                /\ qres.val.mode = "AnimatedUr"
                /\ Len(qres.val.frames) > 1
                /\ qres.val.total_frames = Len(qres.val.frames)
                /\ scanned # None => scanned = Ok(as_bytes(uri))

(***************************************************************************)
(* Further properties of validate_batch, checked under Spec                 *)
(***************************************************************************)
\* whether validate_batch has reported an issue with the given code
Reported(code) ==
    /\ vres # None /\ ~vres.ok
    /\ \E j \in 1..Len(vres.err.issues) : vres.err.issues[j].code = code

\* C13 as stated: the recipient cap is min(config.max_recipients, 500)
\* whatever value is configured; validate_batch reports 1011 exactly when the
\* row count exceeds that cap.
C13_AsStated ==
    vres # None =>
        LET cap == IF config.max_recipients < 500 THEN config.max_recipients ELSE 500
        IN Reported(1011) <=> Len(rows) > cap

\* C13, amended: the recipient cap is 500 when config.max_recipients is 0 and
\* min(config.max_recipients, 500) otherwise; validate_batch reports 1011
\* exactly when the row count exceeds that cap.
C13_CapWithZeroDefault ==
    vres # None =>
        LET cap == IF config.max_recipients = 0 THEN 500
                   ELSE IF config.max_recipients < 500 THEN config.max_recipients
                   ELSE 500
        IN Reported(1011) <=> Len(rows) > cap

\* 501 rows are refused with 1011 although 1000 recipients are configured
C13_Witness ==
    /\ vres # None /\ config.max_recipients = 1000 /\ Len(rows) = 501
    /\ Reported(1011)

\* C14: the rows that pass their three column checks are added up in input
\* order; whenever adding a row's amount to the running total overflows or
\* exceeds ZATOSHI_MAX, validate_batch rejects the batch with an issue 1013
\* that carries that row's number and the column amount, and 1013 is
\* attributed to no other row.
C14_OverflowAttributed ==
    vres # None =>
        LET passes(i) == /\ validate_address_row(rows[i], config.network).ok
                         /\ validate_amount_row(rows[i]).ok
                         /\ validate_memo_row(rows[i]).ok
            leaves(t, i) == LET s == U64CheckedAdd(t.some, validate_amount_row(rows[i]).val)
                            IN s = None \/ ~U64Le(s.some, ZATOSHI_MAX)
            after(t, i) == IF ~passes(i) THEN t
                           ELSE IF t = None THEN Some(validate_amount_row(rows[i]).val)
                           ELSE IF leaves(t, i) THEN t
                           ELSE Some(U64CheckedAdd(t.some, validate_amount_row(rows[i]).val).some)
            \* the running totals before each of the rows lo..hi, t being the
            \* total before row lo
            RECURSIVE Before(_, _, _)
            Before(t, lo, hi) ==
                IF lo > hi THEN <<>>
                ELSE IF lo = hi THEN <<t>>
                ELSE LET mid == (lo + hi) \div 2
                         left == Before(t, lo, mid)
                     IN IF Len(left) = mid - lo + 1
                        THEN left \o Before(after(left[Len(left)], mid), mid + 1, hi)
                        ELSE left
            before == Before(None, 1, Len(rows))
            overflows(i) == passes(i) /\ before[i] # None /\ leaves(before[i], i)
            blamed(i) == /\ ~vres.ok
                         /\ \E j \in 1..Len(vres.err.issues) :
                               /\ vres.err.issues[j].code = 1013
                               /\ vres.err.issues[j].row_number = Some(i)
                               /\ vres.err.issues[j].column = Some("amount")
        IN /\ \A i \in 1..Len(rows) : overflows(i) <=> blamed(i)
           /\ ~vres.ok =>
                \A j \in 1..Len(vres.err.issues) :
                    vres.err.issues[j].code = 1013 =>
                        /\ vres.err.issues[j].row_number # None
                        /\ blamed(vres.err.issues[j].row_number.some)

\* the first row carries ZATOSHI_MAX, the second row's amount overflows the
\* total and is blamed
C14_Witness ==
    /\ vres # None /\ ~vres.ok /\ Len(rows) = 2
    /\ validate_amount_row(rows[1]).ok
    /\ validate_amount_row(rows[1]).val = ZATOSHI_MAX
    /\ vres.err.issues = <<Issue(1013, Some(2), Some("amount"),
                                 "batch total overflow while summing zatoshis")>>

\* C15: in a returned batch, every row whose trimmed address equals the
\* trimmed address of an earlier row has a duplicate-address warning that
\* names the row and the first row carrying that address, and there is no
\* such warning for any other row; a batch is only ever rejected for a
\* batch-level issue, a failed column check or an overflowing total, so a
\* duplicate alone never rejects it.
C15_DuplicateWarnsOnly ==
    vres # None =>
        LET trimmed(i) == Trim(rows[i].address)
            \* the first row that carries the trimmed address of row i
            first(i) == CHOOSE j \in 1..i :
                            /\ trimmed(j) = trimmed(i)
                            /\ \A k \in 1..(j - 1) : trimmed(k) # trimmed(i)
            warned(w) == \E k \in 1..Len(vres.val.warnings) : vres.val.warnings[k] = w
        IN /\ vres.ok =>
                /\ \A i \in 1..Len(rows) :
                      first(i) < i =>
                          warned([kind |-> "duplicate address", address |-> trimmed(i),
                                  row |-> i, first_row |-> first(i)])
                /\ \A k \in 1..Len(vres.val.warnings) :
                      LET w == vres.val.warnings[k]
                      IN w.kind = "duplicate address" =>
                            /\ w.row \in 1..Len(rows)
                            /\ first(w.row) < w.row
                            /\ w.first_row = first(w.row)
                            /\ w.address = trimmed(w.row)
           /\ ~vres.ok =>
                \/ rows = <<>>
                \/ Len(rows) > batch_limit(config)
                \/ Reported(1013)
                \/ \E i \in 1..Len(rows) :
                      \/ ~validate_address_row(rows[i], config.network).ok
                      \/ ~validate_amount_row(rows[i]).ok
                      \/ ~validate_memo_row(rows[i]).ok

\* two rows whose addresses differ only in surrounding blanks are returned
\* together, with the warning on row 2 naming row 1
C15_Witness ==
    /\ vres # None /\ vres.ok /\ Len(rows) = 2
    /\ rows[1].address # rows[2].address
    /\ Trim(rows[1].address) = Trim(rows[2].address)
    /\ \E k \in 1..Len(vres.val.warnings) :
          vres.val.warnings[k] = [kind |-> "duplicate address",
                                  address |-> Trim(rows[2].address),
                                  row |-> 2, first_row |-> 1]

\* C16 as stated: a row whose address is classified Transparent and whose
\* memo is non-empty is never rejected on its memo column; in the returned
\* batch its recipient has no memo and a warning names the row.
C16_AsStated ==
    vres # None =>
        \A i \in 1..Len(rows) :
            (/\ validate_address_row(rows[i], config.network) = Ok("Transparent")
             /\ rows[i].memo # None /\ rows[i].memo.some # <<>>)
            => /\ ~(/\ ~vres.ok
                    /\ \E j \in 1..Len(vres.err.issues) :
                          /\ vres.err.issues[j].row_number = Some(i)
                          /\ vres.err.issues[j].column = Some("memo"))
               /\ vres.ok =>
                    /\ vres.val.recipients[i].recipient.memo = None
                    /\ \E k \in 1..Len(vres.val.warnings) :
                          vres.val.warnings[k] =
                              [kind |-> "memo ignored for transparent address", row |-> i]

\* C16, amended: for a row whose address is classified Transparent and whose
\* memo is non-empty, a memo of at most MEMO_MAX_BYTES bytes raises no issue
\* on the memo column and, in the returned batch, the recipient has no memo
\* and a warning names the row; a longer memo is rejected with 1004 on the
\* memo column like on any other row.
C16_TransparentMemoDropped ==
    vres # None =>
        \A i \in 1..Len(rows) :
            (/\ validate_address_row(rows[i], config.network) = Ok("Transparent")
             /\ rows[i].memo # None /\ rows[i].memo.some # <<>>)
            => LET memoIssue(code) ==
                       /\ ~vres.ok
                       /\ \E j \in 1..Len(vres.err.issues) :
                             /\ vres.err.issues[j].row_number = Some(i)
                             /\ vres.err.issues[j].column = Some("memo")
                             /\ (code = 0 \/ vres.err.issues[j].code = code)
               IN IF ByteLen(rows[i].memo.some) <= MEMO_MAX_BYTES
                  THEN /\ ~memoIssue(0)
                       /\ vres.ok =>
                            /\ vres.val.recipients[i].recipient.memo = None
                            /\ \E k \in 1..Len(vres.val.warnings) :
                                  vres.val.warnings[k] =
                                      [kind |-> "memo ignored for transparent address",
                                       row |-> i]
                  ELSE memoIssue(1004)

\* a transparent row with the memo "ok" is returned without it, with the
\* warning for row 1
C16_Witness ==
    /\ vres # None /\ vres.ok /\ Len(rows) >= 1
    /\ rows[1].address = MAINNET_TADDR
    /\ rows[1].memo = Some(<<"o", "k">>)
    /\ vres.val.recipients[1].address_type = "Transparent"
    /\ vres.val.recipients[1].recipient.memo = None
    /\ \E k \in 1..Len(vres.val.warnings) :
          vres.val.warnings[k] = [kind |-> "memo ignored for transparent address", row |-> 1]

(***************************************************************************)
(* Address specification: one row, whose address is drawn from every       *)
(* address family on both networks, as written, padded with blanks or cut  *)
(* short, is validated for mainnet or for testnet                           *)
(***************************************************************************)
WellFormedAddresses ==
    { MAINNET_TADDR, MAINNET_P2SH, MAINNET_TEX, MAINNET_SAPLING, MAINNET_UNIFIED,
      MAINNET_SPROUT,
      TESTNET_TADDR, TESTNET_P2SH, TESTNET_TEX, TESTNET_SAPLING, TESTNET_UNIFIED }

AddressSamples ==
    LET base == WellFormedAddresses \cup {NOT_AN_ADDRESS, <<>>}
    IN UNION {{a, <<" ">> \o a, a \o <<" ">>, <<" ">> \o a \o <<" ">>} : a \in base}
       \cup {SubSeq(a, 1, Len(a) - 1) : a \in WellFormedAddresses}

InitAddress ==
    /\ MoneyIdle /\ DeskIdle /\ CliIdle /\ UrIdle /\ QrIdle
    /\ vres = None /\ budget = 0 /\ sres = None /\ now = 0 /\ calls = {}
    /\ batch = None
    /\ \E a \in AddressSamples :
          rows = Numbered(<<RawRow(a, Some(<<"1">>), None, None, None)>>)
    /\ \E network \in {"Mainnet", "Testnet"} :
          config = [network |-> network, max_recipients |-> 500]

SpecAddress == InitAddress /\ [][Validate]_vars

\* whether validate_batch has reported the code on the address of row 1
AddressReported(code) ==
    /\ vres # None /\ ~vres.ok
    /\ \E j \in 1..Len(vres.err.issues) :
          vres.err.issues[j] = [vres.err.issues[j] EXCEPT !.code = code,
                                                          !.row_number = Some(1),
                                                          !.column = Some("address")]

\* C17: an address that decodes to a supported family of a network other than
\* the expected one is reported with 1005 on its row and the column address,
\* and 1005 is reported for nothing else; an address that is empty, does not
\* decode, or decodes to an unsupported family is reported with 1001 on its
\* row and the column address.
C17_MismatchVersusMalformed ==
    vres # None =>
        LET address == Trim(rows[1].address)
            parsed == try_from_encoded(address)
            malformed == \/ address = <<>>
                         \/ ~parsed.ok
                         \/ parsed.val.family \notin {"p2pkh", "p2sh", "tex", "sapling", "unified"}
            mismatch == /\ ~malformed
                        /\ \/ config.network = "Mainnet" /\ parsed.val.net # "Main"
                           \/ config.network = "Testnet" /\ parsed.val.net # "Test"
        IN /\ AddressReported(1005) <=> mismatch
           /\ mismatch => ~AddressReported(1001)
           /\ malformed => AddressReported(1001)

\* a testnet Sapling address handed in for mainnet is reported with 1005 only
C17_Witness ==
    /\ vres # None /\ ~vres.ok
    /\ rows[1].address = TESTNET_SAPLING /\ config.network = "Mainnet"
    /\ vres.err.issues = <<Issue(1005, Some(1), Some("address"), "network mismatch")>>

\* C18: every well-formed p2pkh, p2sh or tex address of the expected network
\* is accepted by the row validator and classified Transparent.
C18_AsStated ==
    vres # None =>
        LET parsed == try_from_encoded(Trim(rows[1].address))
        IN (/\ parsed.ok
            /\ parsed.val.family \in {"p2pkh", "p2sh", "tex"}
            /\ \/ config.network = "Mainnet" /\ parsed.val.net = "Main"
               \/ config.network = "Testnet" /\ parsed.val.net = "Test")
           => /\ vres.ok
              /\ vres.val.recipients[1].address_type = "Transparent"

(***************************************************************************)
(* Further properties of Zatoshi, checked under SpecMoney                   *)
(***************************************************************************)
\* C19 as stated: a checked_add that fails because the sum exceeds
\* ZATOSHI_MAX reports the same error as a checked_add whose integer addition
\* overflows, and every other checked_add returns the exact sum.
C19_AsStated ==
    (zop # None /\ zop.name = "checked_add") =>
        LET sum == U64CheckedAdd(zop.arg, zop.other)
        IN IF sum # None /\ U64Le(sum.some, ZATOSHI_MAX)
           THEN zres = Ok(sum.some)
           ELSE zres = checked_add(U64_MAX, U64_MAX)

\* C19, amended: the integer addition of two Zatoshi values never overflows;
\* checked_add fails exactly when the sum exceeds ZATOSHI_MAX, with the error
\* AboveMaximum that carries the sum (an error other than Overflow), and in
\* every other case it returns the exact sum.
C19_AboveMaximumCarriesSum ==
    (zop # None /\ zop.name = "checked_add") =>
        LET sum == U64CheckedAdd(zop.arg, zop.other)
        IN /\ sum # None
           /\ IF U64Le(sum.some, ZATOSHI_MAX)
              THEN zres = Ok(sum.some)
              ELSE /\ zres = Err([kind |-> "AboveMaximum", value |-> sum.some])
                   /\ zres # checked_add(U64_MAX, U64_MAX)

\* ZATOSHI_MAX plus one zatoshi is refused with AboveMaximum(ZATOSHI_MAX + 1)
C19_Witness ==
    /\ zop # None /\ zop.name = "checked_add"
    /\ zop.arg = ZATOSHI_MAX /\ zop.other = <<0, 0, 1>>
    /\ zres = Err([kind |-> "AboveMaximum", value |-> <<0, 21000000, 1>>])

(***************************************************************************)
(* Amount specification: one row with every combination of its two amount  *)
(* fields absent, blank, well formed or malformed is validated              *)
(***************************************************************************)
SampleAmountZec ==
    { None, Some(<<>>), Some(<<"1", ".", "5">>), Some(<<" ", "2", " ">>),
      Some(<<"a", "b", "c">>), Some(<<"0">>) }

SampleAmountZatoshis ==
    { None, Some(<<>>), Some(<<" ">>), Some(<<"5">>), Some(<<" ", "7", " ">>),
      Some(<<"a", "b", "c">>), Some(<<"-", "1">>), Some(<<"0">>),
      Some(<<"2", "1", "0", "0", "0", "0", "0", "0", "0", "0", "0", "0", "0", "0", "0", "1">>) }

InitAmount ==
    /\ MoneyIdle /\ DeskIdle /\ CliIdle /\ UrIdle /\ QrIdle
    /\ vres = None /\ budget = 0 /\ sres = None /\ now = 0 /\ calls = {}
    /\ batch = None
    /\ \E a \in {MAINNET_TADDR, MAINNET_SAPLING}, zec \in SampleAmountZec,
          zat \in SampleAmountZatoshis :
          rows = Numbered(<<RawRow(a, zec, zat, None, None)>>)
    /\ config = [network |-> "Mainnet", max_recipients |-> 500]

SpecAmount == InitAmount /\ [][Validate]_vars

\* C20: when amount_zatoshis is present the row's amount, or its 1002 issue,
\* is what that field alone gives (blank is an error, otherwise the integer
\* parse), whatever amount_zec holds; amount_zec is parsed only when
\* amount_zatoshis is absent, and a row with neither field is refused.
C20_ZatoshisFieldWins ==
    vres # None =>
        LET row == rows[1]
            missing == AmountErr("EmptyInput")
            field == IF row.amount_zatoshis # None
                     THEN IF Trim(row.amount_zatoshis.some) = <<>> THEN missing
                          ELSE parse_zatoshis_str(Trim(row.amount_zatoshis.some))
                     ELSE IF row.amount_zec # None
                     THEN IF Trim(row.amount_zec.some) = <<>> THEN missing
                          ELSE from_zec_str(Trim(row.amount_zec.some))
                     ELSE missing
            refused == /\ ~vres.ok
                       /\ \E j \in 1..Len(vres.err.issues) :
                             /\ vres.err.issues[j].code = 1002
                             /\ vres.err.issues[j].row_number = Some(1)
                             /\ vres.err.issues[j].column = Some("amount")
        IN IF field.ok
           THEN vres.ok /\ vres.val.recipients[1].recipient.amount = field.val
           ELSE refused

\* a row with a malformed amount_zec and amount_zatoshis "5" is accepted for
\* 5 zatoshis
C20_Witness ==
    /\ vres # None /\ vres.ok
    /\ rows[1].amount_zec = Some(<<"a", "b", "c">>)
    /\ rows[1].amount_zatoshis = Some(<<"5">>)
    /\ vres.val.recipients[1].recipient.amount = <<0, 0, 5>>

(***************************************************************************)
(* Memo specification: one row whose memo is absent, empty, or at, just    *)
(* below or just above the limit, in ASCII or with characters of two and   *)
(* three bytes, is validated                                                *)
(***************************************************************************)
\* pub fn validate_memo
validate_memo(memo) ==
    IF memo # None /\ ByteLen(memo.some) > MEMO_MAX_BYTES
    THEN TaxonomyError(1004, "memo exceeds 512 bytes")
    ELSE Ok(<<>>)

\* how far below the limit the sampled memo lengths start
MemoMargin == 4

MemoLens == {1} \cup ((MEMO_MAX_BYTES - MemoMargin)..(MEMO_MAX_BYTES + 1))

SampleMemos ==
    {None, Some(<<>>)}
    \cup {Some(Repeat("x", n)) : n \in MemoLens}
    \cup {Some(<<c>> \o Repeat("x", n)) : c \in DOMAIN NonAsciiUtf8, n \in MemoLens}
    \cup {Some(Repeat("U+00E9", n)) : n \in {MEMO_MAX_BYTES \div 2, MEMO_MAX_BYTES \div 2 + 1}}

InitMemo ==
    /\ MoneyIdle /\ DeskIdle /\ CliIdle /\ UrIdle /\ QrIdle
    /\ vres = None /\ budget = 0 /\ sres = None /\ now = 0 /\ calls = {}
    /\ batch = None
    /\ \E a \in {MAINNET_TADDR, MAINNET_SAPLING}, memo \in SampleMemos :
          rows = Numbered(<<RawRow(a, Some(<<"1">>), None, memo, None)>>)
    /\ \E network \in {"Mainnet", "Testnet"} :
          config = [network |-> network, max_recipients |-> 500]

SpecMemo == InitMemo /\ [][Validate]_vars

\* C21: a row's memo raises an issue exactly when its UTF-8 encoding is
\* longer than 512 bytes, whatever its number of characters; the issue then
\* has code 1004, the row's number and the column memo; validate_memo agrees.
C21_MemoByteLimit ==
    vres # None =>
        LET memo == rows[1].memo
            tooLong == memo # None /\ Len(as_bytes(memo.some)) > 512
            onMemo == IF vres.ok THEN {}
                      ELSE {vres.err.issues[j] : j \in {k \in 1..Len(vres.err.issues) :
                                vres.err.issues[k].column = Some("memo")}}
        IN /\ tooLong <=> onMemo # {}
           /\ \A issue \in onMemo : issue.code = 1004 /\ issue.row_number = Some(1)
           /\ validate_memo(memo).ok <=> ~tooLong
           /\ ~validate_memo(memo).ok => validate_memo(memo).err.code = 1004

\* a memo of 512 characters, one of them of two bytes, is refused with 1004
C21_Witness ==
    /\ vres # None /\ ~vres.ok
    /\ rows[1].address = MAINNET_SAPLING /\ config.network = "Mainnet"
    /\ rows[1].memo = Some(<<"U+00E9">> \o Repeat("x", 511))
    /\ vres.err.issues = <<Issue(1004, Some(1), Some("memo"), "memo exceeds 512 bytes")>>

(***************************************************************************)
(* Codec specification with damaged input: as SpecUr, and one of the       *)
(* supplied fragments may be replaced by a string that is not a valid part *)
(***************************************************************************)
\* the strings a fragment can be damaged into: the string of the test
\* decode_rejects_invalid_fragment_data, a foreign scheme, a body that is
\* not bytewords
Damaged(fragment) ==
    { [text |-> <<"u", "r", ":", "b", "y", "t", "e", "s", "/">>, body |-> [other |-> "not-valid"]],
      [fragment EXCEPT !.text = <<"x", "x">> \o SubSeq(fragment.text, 3, Len(fragment.text))],
      [fragment EXCEPT !.body = [other |-> "zzzz"]] }

UrDamage ==
    /\ eres # None /\ eres.ok /\ supplied # <<>> /\ dres = None
    /\ \A i \in 1..Len(supplied) : \E j \in 1..Len(eres.val) : supplied[i] = eres.val[j]
    /\ \E i \in 1..Len(supplied) : \E d \in Damaged(supplied[i]) :
          supplied' = [supplied EXCEPT ![i] = d]
    /\ UNCHANGED <<payload, fraglen, eres, dres, moneyVars, deskVars, cliVars, pipeVars, qrVars>>

NextUrDamaged == UrEncode \/ UrSupply \/ UrDamage \/ UrDecode

SpecUrDamaged == InitUr /\ [][NextUrDamaged]_vars

\* C22: decode_ur_fragments returns a payload only when every supplied
\* fragment is a valid part and the parts cover the whole message, and the
\* payload is then exactly the encoded one; an empty list and a list holding
\* a string that is not a valid part fail with 5007, and a list of valid
\* parts that does not cover the message fails with 5008.
C22_NoPartialDecode ==
    (eres # None /\ eres.ok /\ dres # None) =>
        LET valid(i) == \E j \in 1..Len(eres.val) : supplied[i] = eres.val[j]
            allValid == \A i \in 1..Len(supplied) : valid(i)
            covers == \A j \in 1..Len(eres.val) :
                          \E i \in 1..Len(supplied) : supplied[i] = eres.val[j]
            fails(code) == ~dres.ok /\ dres.err.code = code
        IN /\ dres.ok => (allValid /\ covers /\ dres.val = payload)
           /\ supplied = <<>> => fails(5007)
           /\ ~allValid => fails(5007)
           /\ (supplied # <<>> /\ allValid /\ ~covers) => fails(5008)

\* the first of two fragments alone is refused with 5008
C22_WitnessIncomplete ==
    /\ eres # None /\ eres.ok /\ Len(eres.val) = 2
    /\ supplied = <<eres.val[1]>>
    /\ dres # None /\ ~dres.ok /\ dres.err.code = 5008

(***************************************************************************)
(* Construction and segmentation of the same batch                          *)
(***************************************************************************)
NextTotals == Validate \/ Construct \/ Segment

SpecTotals == Init /\ [][NextTotals]_vars

\* the exact sum of two amounts, digit by digit with carry and no upper limit
WideAdd(a, b) ==
    LET d0 == a[3] + b[3]
        d1 == a[2] + b[2] + d0 \div 100000000
    IN <<a[1] + b[1] + d1 \div 100000000, d1 % 100000000, d0 % 100000000>>

\* the exact sum of the amounts of recipients[lo..hi]
RECURSIVE WideSum(_, _, _)
WideSum(recipients, lo, hi) ==
    IF lo > hi THEN <<0, 0, 0>>
    ELSE IF lo = hi THEN recipients[lo].amount
    ELSE WideAdd(WideSum(recipients, lo, (lo + hi) \div 2),
                 WideSum(recipients, (lo + hi) \div 2 + 1, hi))

\* C23: every intent construct_zip321 returns, and every segment, carries as
\* total_zat the sum of the amounts of its own recipients, whatever the total
\* field of the batch says, and that sum is at most ZATOSHI_MAX; a non-empty
\* batch whose recipients sum above ZATOSHI_MAX yields error 1013 and no intent.
C23_TotalRecomputed ==
    /\ \A c \in calls :
          LET own == [i \in 1..Len(c.recipients) |-> c.recipients[i].recipient]
              sum == WideSum(own, 1, Len(own))
          IN /\ c.out.ok => /\ c.out.val.recipients = own
                            /\ c.out.val.total_zat = sum
                            /\ U64Le(sum, ZATOSHI_MAX)
             /\ (own # <<>> /\ U64Lt(ZATOSHI_MAX, sum)) =>
                    (~c.out.ok /\ c.out.err.code = 1013)
    /\ (sres # None /\ sres.ok) =>
          \A n \in 1..Len(sres.val.segments) :
              LET segment == sres.val.segments[n]
              IN segment.total_zat
                    = WideSum(segment.recipients, 1, Len(segment.recipients))

\* an intent was built from a batch whose total field is 7 while its two
\* recipients sum to 3, and the same batch was cut into two segments
C23_Witness ==
    /\ batch # None /\ batch.some.total = <<0, 0, 7>>
    /\ \E c \in calls : c.out.ok /\ c.out.val.total_zat = <<0, 0, 3>>
    /\ sres # None /\ sres.ok /\ Len(sres.val.segments) = 2
    /\ sres.val.segments[2].total_zat = <<0, 0, 2>>

(***************************************************************************)
(* The two guards of segment_batch, checked under Spec                      *)
(***************************************************************************)
\* C24 as stated: a zero budget is rejected with 1005 and an empty batch is
\* rejected with 1012.
C24_AsStated ==
    (sres # None) =>
        /\ budget = 0 => (~sres.ok /\ sres.err.code = 1005)
        /\ batch.some.recipients = <<>> => (~sres.ok /\ sres.err.code = 1012)

\* C24: segment_batch tests the budget first: a zero budget is rejected with
\* 1005 whatever the batch holds, and an empty batch is rejected with 1012
\* when the budget is positive; both errors carry the message of their guard
\* and arise in no other case.
C24_BudgetGuardFirst ==
    (sres # None) =>
        LET zero == TaxonomyError(1005, "max_payload_bytes must be greater than zero")
            empty == TaxonomyError(1012, "cannot segment an empty validated batch")
        IN /\ budget = 0 <=> sres = zero
           /\ (budget # 0 /\ batch.some.recipients = <<>>) <=> sres = empty
           /\ (~sres.ok /\ sres.err.code \in {1005, 1012}) => sres \in {zero, empty}

\* the empty batch was handed over with a zero budget and refused with 1005
C24_Witness ==
    /\ batch # None /\ batch.some.recipients = <<>>
    /\ budget = 0
    /\ sres # None /\ ~sres.ok /\ sres.err.code = 1005

(***************************************************************************)
(* Validation followed by construction, checked under SpecIntent            *)
(***************************************************************************)
\* C25: for every batch B that validate_batch returned, every call of
\* construct_zip321 on B succeeds, and the intent carries B's total, B's
\* network and B's recipients in B's order.
C25_ValidatedBatchConstructs ==
    (vres # None /\ vres.ok) =>
        /\ batch = Some(vres.val)
        /\ \A c \in calls :
              /\ c.recipients = vres.val.recipients
              /\ c.out.ok
              /\ c.out.val.total_zat = vres.val.total
              /\ c.out.val.network = vres.val.network
              /\ Len(c.out.val.recipients) = Len(vres.val.recipients)
              /\ \A i \in 1..Len(vres.val.recipients) :
                    c.out.val.recipients[i] = vres.val.recipients[i].recipient

\* two rows of different addresses and amounts were validated and built into
\* an intent that lists them in row order with their total
C25_Witness ==
    /\ vres # None /\ vres.ok /\ Len(vres.val.recipients) = 2
    /\ vres.val.recipients[1].recipient.address # vres.val.recipients[2].recipient.address
    /\ vres.val.recipients[1].recipient.amount # vres.val.recipients[2].recipient.amount
    /\ \E c \in calls :
          /\ c.out.ok
          /\ c.out.val.total_zat = vres.val.total
          /\ c.out.val.recipients[1].address = vres.val.recipients[1].recipient.address
          /\ c.out.val.recipients[2].address = vres.val.recipients[2].recipient.address

(***************************************************************************)
(* Desktop: session key and field encryption (encryption.rs)                *)
(*                                                                          *)
(* A passphrase, a plaintext and a key are opaque values.  The output of    *)
(* encrypt_string, hex(nonce || AES-256-GCM(key, nonce, plaintext)), is the *)
(* record [kind |-> "sealed", nonce, key, plaintext]: it opens under the    *)
(* key that sealed it and under no other.  Other input of decrypt_string is *)
(* [kind |-> "text", text].  Timestamps of the stored records are left out. *)
(***************************************************************************)
\* a passphrase of more than u32::MAX bytes, which Argon2 refuses
OversizePassphrase == "passphrase of 2^32 bytes"

\* fn derive_key_from_passphrase
derive_key_from_passphrase(passphrase) ==
    IF passphrase = OversizePassphrase
    THEN Err("failed to derive key with Argon2id: password is too long")
    ELSE Ok([argon2id |-> passphrase, salt |-> "laminar-desktop-v1"])

NotSet == Err("storage passphrase is not set")

\* pub fn set_passphrase: the Result and the key store afterwards
set_passphrase(store, passphrase) ==
    LET derived == derive_key_from_passphrase(passphrase)
    IN IF ~derived.ok THEN [out |-> derived, store |-> store]
       ELSE [out |-> Ok(<<>>), store |-> Some(derived.val)]

\* pub fn is_unlocked
is_unlocked(store) == store # None

\* a clear_session_key that leaves the store as it is
clear_session_key_KeepsKey(store) == store

\* pub fn clear_session_key: the key store afterwards
clear_session_key(store) == None

\* pub fn encrypt_string, with the nonce OsRng produced
encrypt_string(store, plaintext, nonce) ==
    IF store = None THEN NotSet
    ELSE Ok([kind |-> "sealed", nonce |-> nonce, key |-> store.some, plaintext |-> plaintext])

\* pub fn decrypt_string
decrypt_string(store, data) ==
    IF store = None THEN NotSet
    ELSE IF data.kind = "text"
    THEN IF Len(data.text) % 2 # 0 THEN Err("hex data must have an even length")
         ELSE IF \E i \in 1..Len(data.text) :
                    data.text[i] \notin {"0", "1", "2", "3", "4", "5", "6", "7", "8", "9",
                                         "a", "b", "c", "d", "e", "f",
                                         "A", "B", "C", "D", "E", "F"}
         THEN Err("invalid hex character")
         ELSE IF Len(data.text) \div 2 <= 12 THEN Err("ciphertext is too short")
         ELSE Err("decryption failed")
    ELSE IF data.key # store.some THEN Err("decryption failed")
    ELSE Ok(data.plaintext)

(***************************************************************************)
(* Desktop: local storage (storage.rs)                                      *)
(***************************************************************************)
\* impl Default for LocalDb
LocalDb_default == [db_name |-> "laminar", version |-> 1, contacts |-> <<>>, drafts |-> <<>>]

\* fn load_db: the file's database, or the default when there is no file
load_db(file) == IF file = None THEN LocalDb_default ELSE file.some

\* fn decrypt_contact
decrypt_contact(store, record) ==
    LET label == decrypt_string(store, record.label_encrypted)
        notes == decrypt_string(store, record.notes_encrypted)
    IN IF ~label.ok THEN label
       ELSE IF ~notes.ok THEN notes
       ELSE Ok([id |-> record.id, address |-> record.address,
                label |-> label.val, notes |-> notes.val])

\* fn decrypt_draft
decrypt_draft(store, record) ==
    LET decrypted == decrypt_string(store, record.recipients_encrypted)
    IN IF ~decrypted.ok THEN decrypted
       ELSE Ok([id |-> record.id, name |-> record.name, network |-> record.network,
                recipients |-> decrypted.val])

\* fn make_id: the prefix and the nanosecond timestamp, which grows from call
\* to call
make_id(prefix, nanos) == prefix \o "-" \o ToString(nanos)

\* the position of the first record with the given id, or 0
FindId(records, id) ==
    IF \E i \in 1..Len(records) : records[i].id = id
    THEN CHOOSE i \in 1..Len(records) :
            records[i].id = id /\ \A j \in 1..(i - 1) : records[j].id # id
    ELSE 0

\* Vec::retain(|entry| entry.id != id)
RECURSIVE Retain(_, _)
Retain(records, id) ==
    IF records = <<>> THEN <<>>
    ELSE (IF Head(records).id = id THEN <<>> ELSE <<Head(records)>>) \o Retain(Tail(records), id)

\* Each storage function below is given the database it loaded and returns
\* its Result and the database it saves, if it gets as far as save_db.
Outcome(out, save) == [out |-> out, save |-> save]

\* pub fn create_contact, after load_db
create_contact(db, store, id, address, label, notes, nonce1, nonce2) ==
    LET label_encrypted == encrypt_string(store, label, nonce1)
        notes_encrypted == encrypt_string(store, notes, nonce2)
    IN IF ~label_encrypted.ok THEN Outcome(label_encrypted, None)
       ELSE IF ~notes_encrypted.ok THEN Outcome(notes_encrypted, None)
       ELSE LET record == [id |-> id, address |-> address,
                           label_encrypted |-> label_encrypted.val,
                           notes_encrypted |-> notes_encrypted.val]
                output == decrypt_contact(store, record)
            IN IF ~output.ok THEN Outcome(output, None)
               ELSE Outcome(output, Some([db EXCEPT !.contacts = Append(@, record)]))

\* pub fn list_contacts, after load_db: the first error, or all contacts
list_contacts(db, store) ==
    LET plain(i) == decrypt_contact(store, db.contacts[i])
    IN IF \E i \in 1..Len(db.contacts) : ~plain(i).ok
       THEN plain(CHOOSE i \in 1..Len(db.contacts) :
                     ~plain(i).ok /\ \A j \in 1..(i - 1) : plain(j).ok)
       ELSE Ok([i \in 1..Len(db.contacts) |-> plain(i).val])

\* pub fn update_contact, after load_db, called with a new address and
\* neither label nor notes
update_contact(db, store, id, address) ==
    LET at == FindId(db.contacts, id)
    IN IF at = 0 THEN Outcome(Err("contact '" \o id \o "' not found"), None)
       ELSE LET record == [db.contacts[at] EXCEPT !.address = address]
                output == decrypt_contact(store, record)
            IN IF ~output.ok THEN Outcome(output, None)
               ELSE Outcome(output, Some([db EXCEPT !.contacts[at] = record]))

\* pub fn delete_contact, after load_db
delete_contact(db, id) ==
    IF FindId(db.contacts, id) = 0 THEN Outcome(Err("contact '" \o id \o "' not found"), None)
    ELSE Outcome(Ok(<<>>), Some([db EXCEPT !.contacts = Retain(@, id)]))

\* pub fn save_draft, after load_db
save_draft(db, store, id, name, network, recipients, nonce) ==
    LET recipients_encrypted == encrypt_string(store, recipients, nonce)
    IN IF ~recipients_encrypted.ok THEN Outcome(recipients_encrypted, None)
       ELSE LET record == [id |-> id, name |-> name,
                           recipients_encrypted |-> recipients_encrypted.val,
                           network |-> network, recipient_count |-> Len(recipients)]
            IN Outcome(Ok([id |-> id, name |-> name, network |-> network,
                           recipient_count |-> Len(recipients)]),
                       Some([db EXCEPT !.drafts = Append(@, record)]))

\* pub fn load_draft, after load_db
load_draft(db, store, id) ==
    LET at == FindId(db.drafts, id)
    IN IF at = 0 THEN Err("draft '" \o id \o "' not found")
       ELSE decrypt_draft(store, db.drafts[at])

\* pub fn delete_draft, after load_db
delete_draft(db, id) ==
    IF FindId(db.drafts, id) = 0 THEN Outcome(Err("draft '" \o id \o "' not found"), None)
    ELSE Outcome(Ok(<<>>), Some([db EXCEPT !.drafts = Retain(@, id)]))

(***************************************************************************)
(* Session specification: one thread calls the encryption API and the       *)
(* storage functions one after the other                                    *)
(***************************************************************************)
MaxSessionCalls == 4

Passphrases == {"test-password", "other-password", OversizePassphrase}

Nonces == {1, 2}

\* recipients as save_draft serialises them
DraftJson == <<"[{\"row_number\":1}]">>

\* the sealed strings returned so far, and the string of the test
\* decrypt_fails_when_key_not_set
KnownData ==
    {history[i].out.val : i \in {j \in 1..Len(history) :
                                    history[j].name = "encrypt_string" /\ history[j].out.ok}}
    \cup {[kind |-> "text", text |-> <<"0", "0">>]}

Returned(name, arg, out) ==
    /\ history' = Append(history, [name |-> name, arg |-> arg, out |-> out])
    /\ issued' = issued + 1

InitSession ==
    /\ MoneyIdle /\ PipeIdle /\ UrIdle /\ QrIdle /\ DeskIdle /\ CliIdle

SetPassphrase ==
    /\ issued < MaxSessionCalls
    /\ \E passphrase \in Passphrases :
          LET r == set_passphrase(session_key, passphrase)
          IN /\ session_key' = r.store
             /\ Returned("set_passphrase", passphrase, r.out)
    /\ UNCHANGED <<db_file, procs, moneyVars, pipeVars, urVars, qrVars, cliVars>>

ClearSessionKey ==
    /\ issued < MaxSessionCalls
    /\ session_key' = clear_session_key(session_key)
    /\ Returned("clear_session_key", <<>>, Ok(<<>>))
    /\ UNCHANGED <<db_file, procs, moneyVars, pipeVars, urVars, qrVars, cliVars>>

IsUnlocked ==
    /\ issued < MaxSessionCalls
    /\ Returned("is_unlocked", <<>>, Ok(is_unlocked(session_key)))
    /\ UNCHANGED <<session_key, db_file, procs, moneyVars, pipeVars, urVars, qrVars, cliVars>>

EncryptString ==
    /\ issued < MaxSessionCalls
    /\ \E nonce \in Nonces :
          Returned("encrypt_string", "sensitive-value",
                   encrypt_string(session_key, "sensitive-value", nonce))
    /\ UNCHANGED <<session_key, db_file, procs, moneyVars, pipeVars, urVars, qrVars, cliVars>>

DecryptString ==
    /\ issued < MaxSessionCalls
    /\ \E data \in KnownData :
          Returned("decrypt_string", data, decrypt_string(session_key, data))
    /\ UNCHANGED <<session_key, db_file, procs, moneyVars, pipeVars, urVars, qrVars, cliVars>>

\* storage::create_contact from load_db to save_db
CreateContact ==
    /\ issued < MaxSessionCalls
    /\ \E nonce \in Nonces :
          LET r == create_contact(load_db(db_file), session_key, make_id("contact", issued),
                                  "t1Hsc1LR8yKnbbe3twRp88p6vFfC5t7DLbs", "Alice", "Payroll",
                                  nonce, 3 - nonce)
          IN /\ db_file' = IF r.save = None THEN db_file ELSE r.save
             /\ Returned("create_contact", <<>>, r.out)
    /\ UNCHANGED <<session_key, procs, moneyVars, pipeVars, urVars, qrVars, cliVars>>

\* storage::list_contacts; the entry records how many contacts were stored
ListContacts ==
    /\ issued < MaxSessionCalls
    /\ Returned("list_contacts", Len(load_db(db_file).contacts),
                list_contacts(load_db(db_file), session_key))
    /\ UNCHANGED <<session_key, db_file, procs, moneyVars, pipeVars, urVars, qrVars, cliVars>>

\* storage::save_draft from load_db to save_db
SaveDraft ==
    /\ issued < MaxSessionCalls
    /\ \E nonce \in Nonces :
          LET r == save_draft(load_db(db_file), session_key, make_id("draft", issued),
                              "Payroll", "mainnet", DraftJson, nonce)
          IN /\ db_file' = IF r.save = None THEN db_file ELSE r.save
             /\ Returned("save_draft", <<>>, r.out)
    /\ UNCHANGED <<session_key, procs, moneyVars, pipeVars, urVars, qrVars, cliVars>>

\* storage::load_draft of a stored draft
LoadDraft ==
    /\ issued < MaxSessionCalls
    /\ \E i \in 1..Len(load_db(db_file).drafts) :
          Returned("load_draft", 1,
                   load_draft(load_db(db_file), session_key, load_db(db_file).drafts[i].id))
    /\ UNCHANGED <<session_key, db_file, procs, moneyVars, pipeVars, urVars, qrVars, cliVars>>

NextSession ==
    \/ SetPassphrase \/ ClearSessionKey \/ IsUnlocked \/ EncryptString \/ DecryptString
    \/ CreateContact \/ ListContacts \/ SaveDraft \/ LoadDraft

SpecSession == InitSession /\ [][NextSession]_vars

\* whether a key is set before call number i: the last call before it that
\* touched the store was a set_passphrase that returned Ok
KeySetBefore(i) ==
    \E j \in 1..(i - 1) :
        /\ history[j].name = "set_passphrase" /\ history[j].out.ok
        /\ \A k \in (j + 1)..(i - 1) : history[k].name # "clear_session_key"

\* C26: in every sequence of calls, a key is set exactly after a successful
\* set_passphrase not followed by clear_session_key; encrypt_string and
\* decrypt_string succeed only then and otherwise fail with "storage
\* passphrase is not set"; without a key, listing stored contacts and loading
\* a stored draft fail the same way; is_unlocked answers whether a key is set.
C26_KeyGatesFields ==
    /\ (session_key # None) <=> KeySetBefore(Len(history) + 1)
    /\ \A i \in 1..Len(history) :
          LET call == history[i]
          IN /\ call.name \in {"encrypt_string", "decrypt_string"} =>
                   /\ call.out.ok => KeySetBefore(i)
                   /\ ~KeySetBefore(i) => call.out = NotSet
             /\ call.name = "is_unlocked" => (call.out.val <=> KeySetBefore(i))
             /\ (call.name \in {"list_contacts", "load_draft"} /\ call.arg > 0
                 /\ ~KeySetBefore(i)) => call.out = NotSet
             /\ (call.name \in {"create_contact", "save_draft"} /\ ~KeySetBefore(i)) =>
                   call.out = NotSet

\* a contact was stored under a key, the key was cleared, and the list of
\* contacts was then refused
C26_Witness ==
    /\ Len(history) = 4
    /\ history[1].name = "set_passphrase" /\ history[1].out.ok
    /\ history[2].name = "create_contact" /\ history[2].out.ok
    /\ history[3].name = "clear_session_key"
    /\ history[4].name = "list_contacts" /\ history[4].out = NotSet
    /\ session_key = None /\ db_file # None /\ Len(db_file.some.contacts) = 1

(***************************************************************************)
(* Order and greediness of segment_batch, checked under Spec                *)
(***************************************************************************)
\* the number of recipients in segments lo..hi of the result
RECURSIVE SegmentLens(_, _)
SegmentLens(lo, hi) ==
    IF lo > hi THEN 0
    ELSE IF lo = hi THEN Len(sres.val.segments[lo].recipients)
    ELSE SegmentLens(lo, (lo + hi) \div 2) + SegmentLens((lo + hi) \div 2 + 1, hi)

\* C27: when segment_batch succeeds, no segment is empty, and the recipients
\* of the segments, read segment after segment, are the recipients of the
\* batch in their order.
C27_SegmentsPartitionInOrder ==
    (sres # None /\ sres.ok) =>
        LET segments == sres.val.segments
            original == batch.some.recipients
        IN /\ segments # <<>>
           /\ \A n \in 1..Len(segments) : segments[n].recipients # <<>>
           /\ SegmentLens(1, Len(segments)) = Len(original)
           /\ \A n \in 1..Len(segments) :
                 LET before == SegmentLens(1, n - 1)
                 IN \A i \in 1..Len(segments[n].recipients) :
                       /\ before + i <= Len(original)
                       /\ segments[n].recipients[i] = original[before + i].recipient

\* four distinct recipients were cut into at least two segments, the second
\* of which starts where the first ended
C27_Witness ==
    /\ sres # None /\ sres.ok /\ Len(batch.some.recipients) = 4
    /\ Len(sres.val.segments) >= 2
    /\ Len(sres.val.segments[1].recipients) = 2
    /\ sres.val.segments[1].recipients[2] = batch.some.recipients[2].recipient
    /\ sres.val.segments[2].recipients[1] = batch.some.recipients[3].recipient
    /\ batch.some.recipients[2].recipient # batch.some.recipients[3].recipient

\* C28: when segment_batch succeeds, every segment but the last is full: the
\* URI of its recipients followed by the first recipient of the next segment
\* is longer than the budget.
C28_SegmentsAreGreedy ==
    (sres # None /\ sres.ok) =>
        \A n \in 1..(Len(sres.val.segments) - 1) :
            LET first == SegmentLens(1, n - 1) + 1
                last == first + Len(sres.val.segments[n].recipients)
            IN /\ last <= Len(batch.some.recipients)
               /\ ByteLen(build_zip321_uri(SubSeq(batch.some.recipients, first, last)))
                     > budget

\* a first segment of two recipients was closed although the budget would
\* hold a longer URI than its own: the third recipient did not fit with them
C28_Witness ==
    /\ sres # None /\ sres.ok /\ Len(sres.val.segments) >= 2
    /\ Len(sres.val.segments[1].recipients) = 2
    /\ sres.val.segments[1].payload_bytes < budget
    /\ ByteLen(build_zip321_uri(SubSeq(batch.some.recipients, 1, 3))) > budget

(***************************************************************************)
(* Storage specification: synchronous commands on the main thread and       *)
(* save_draft on the blocking pool, each a load_db, a change of the loaded  *)
(* copy and a save_db, with nothing that orders the file accesses of two    *)
(* threads (commands.rs 817-983, storage.rs 171-376)                         *)
(***************************************************************************)
MaxStorageCalls == 3

\* the key of an unlocked session
UnlockedStore == Some(derive_key_from_passphrase("test-password").val)

\* a database written earlier in the session: one contact and one draft
StoredDb ==
    [LocalDb_default EXCEPT
        !.contacts = <<[id |-> make_id("contact", 0),
                        address |-> "t1Hsc1LR8yKnbbe3twRp88p6vFfC5t7DLbs",
                        label_encrypted |-> encrypt_string(UnlockedStore, "Alice", 1).val,
                        notes_encrypted |-> encrypt_string(UnlockedStore, "Payroll", 2).val]>>,
        !.drafts = <<[id |-> make_id("draft", 0), name |-> "Payroll",
                      recipients_encrypted |-> encrypt_string(UnlockedStore, DraftJson, 1).val,
                      network |-> "mainnet", recipient_count |-> 1]>>]

InitStorage ==
    /\ MoneyIdle /\ PipeIdle /\ UrIdle /\ QrIdle /\ CliIdle
    /\ session_key = UnlockedStore
    /\ db_file \in {None, Some(StoredDb)}
    /\ procs = [p \in Procs |-> [pc |-> "idle"]]
    /\ history = <<>> /\ issued = 1

\* the ids the commands of the main thread are called with: those of the
\* records the user interface was last shown
ShownIds(prefix) == {make_id(prefix, n) : n \in 0..(issued - 1)}

\* a thread enters a storage function and runs it as far as load_db
Enter(p, name, arg) ==
    /\ procs[p].pc = "idle" /\ issued <= MaxStorageCalls
    /\ procs' = [procs EXCEPT ![p] = [pc |-> "loaded", name |-> name, arg |-> arg,
                                      nanos |-> issued, db |-> load_db(db_file)]]
    /\ issued' = issued + 1
    /\ UNCHANGED <<session_key, db_file, history, moneyVars, pipeVars, urVars, qrVars, cliVars>>

\* commands::create_contact, update_contact, delete_contact, delete_draft
EnterMain ==
    \/ Enter("main", "create_contact", "t1Hsc1LR8yKnbbe3twRp88p6vFfC5t7DLbs")
    \/ \E id \in ShownIds("contact") : Enter("main", "update_contact", id)
    \/ \E id \in ShownIds("contact") : Enter("main", "delete_contact", id)
    \/ \E id \in ShownIds("draft") : Enter("main", "delete_draft", id)

\* commands::save_draft inside run_blocking
EnterPool ==
    \E p \in Procs \ {"main"} : Enter(p, "save_draft", "Payroll")

\* what the function a thread is inside returns, and what it saves
Run(proc) ==
    CASE proc.name = "create_contact" ->
            create_contact(proc.db, session_key, make_id("contact", proc.nanos),
                           proc.arg, "Bob", "Rent", 1, 2)
      [] proc.name = "update_contact" ->
            update_contact(proc.db, session_key, proc.arg, "t3JZcvsuaXE6ygokL4XUiZSTrQBUoPYFnXJ")
      [] proc.name = "delete_contact" -> delete_contact(proc.db, proc.arg)
      [] proc.name = "delete_draft" -> delete_draft(proc.db, proc.arg)
      [] proc.name = "save_draft" ->
            save_draft(proc.db, session_key, make_id("draft", proc.nanos),
                       proc.arg, "mainnet", DraftJson, 1)

\* the thread runs the rest of the function: the change, save_db, the return
Leave ==
    \E p \in Procs :
        /\ procs[p].pc = "loaded"
        /\ LET r == Run(procs[p])
           IN /\ db_file' = IF r.save = None THEN db_file ELSE r.save
              /\ history' = Append(history, [name |-> procs[p].name, arg |-> procs[p].arg,
                                             nanos |-> procs[p].nanos, out |-> r.out])
        /\ procs' = [procs EXCEPT ![p] = [pc |-> "idle"]]
        /\ UNCHANGED <<session_key, issued, moneyVars, pipeVars, urVars, qrVars, cliVars>>

NextStorage == EnterMain \/ EnterPool \/ Leave

SpecStorage == InitStorage /\ [][NextStorage]_vars

\* the ids of the stored records
StoredIds(records) == {records[i].id : i \in 1..Len(records)}

\* C29 as stated: the database file reflects every storage command that
\* returned Ok: a saved draft or created contact is stored unless a command
\* that returned Ok deleted it, a deleted record is not stored, and an
\* updated contact that is stored carries the new address.
C29_NoLostUpdate ==
    \A i \in 1..Len(history) :
        LET call == history[i]
            db == load_db(db_file)
            deleted(name, id) ==
                \E j \in 1..Len(history) :
                    history[j].name = name /\ history[j].arg = id /\ history[j].out.ok
        IN call.out.ok =>
            /\ call.name = "save_draft" =>
                  \/ make_id("draft", call.nanos) \in StoredIds(db.drafts)
                  \/ deleted("delete_draft", make_id("draft", call.nanos))
            /\ call.name = "create_contact" =>
                  \/ make_id("contact", call.nanos) \in StoredIds(db.contacts)
                  \/ deleted("delete_contact", make_id("contact", call.nanos))
            /\ call.name = "delete_draft" => call.arg \notin StoredIds(db.drafts)
            /\ call.name = "delete_contact" => call.arg \notin StoredIds(db.contacts)
            /\ call.name = "update_contact" =>
                  \A k \in 1..Len(db.contacts) :
                      db.contacts[k].id = call.arg =>
                          db.contacts[k].address = "t3JZcvsuaXE6ygokL4XUiZSTrQBUoPYFnXJ"

(***************************************************************************)
(* CLI: mode detection, confirmation and dispatch (laminar-cli)             *)
(*                                                                          *)
(* An input file is [exists, extension, rows]: the rows are what the CSV or *)
(* JSON parser hands to validate_batch.  A CliError is [kind, ..].          *)
(***************************************************************************)
\* mode::detect_mode_with_terminal
detect_mode(output_json, interactive, stdout_is_terminal) ==
    IF output_json THEN "Agent"
    ELSE IF interactive THEN "Operator"
    ELSE IF stdout_is_terminal THEN "Operator"
    ELSE "Agent"

UpperCase == <<"A", "B", "C", "D", "E", "F", "G", "H", "I", "J", "K", "L", "M",
               "N", "O", "P", "Q", "R", "S", "T", "U", "V", "W", "X", "Y", "Z">>
LowerCase == <<"a", "b", "c", "d", "e", "f", "g", "h", "i", "j", "k", "l", "m",
               "n", "o", "p", "q", "r", "s", "t", "u", "v", "w", "x", "y", "z">>

\* str::to_ascii_lowercase
to_ascii_lowercase(s) ==
    [i \in 1..Len(s) |->
        IF IndexOf(UpperCase, s[i]) = 0 THEN s[i] ELSE LowerCase[IndexOf(UpperCase, s[i])]]

\* OperatorOutput::is_confirmation_accepted
is_confirmation_accepted(input) ==
    to_ascii_lowercase(Trim(input)) \in {<<"y">>, <<"y", "e", "s">>}

\* commands::parse_network
parse_network(network) ==
    LET name == to_ascii_lowercase(Trim(network))
    IN IF name = <<"m", "a", "i", "n", "n", "e", "t">> THEN Ok("Mainnet")
       ELSE IF name = <<"t", "e", "s", "t", "n", "e", "t">> THEN Ok("Testnet")
       ELSE TaxonomyError(2001, "unsupported network, expected mainnet or testnet")

\* commands::read_and_validate_file
read_and_validate_file(file, network) ==
    LET parsed == parse_network(network)
    IN IF ~parsed.ok THEN parsed
       ELSE IF ~file.exists THEN Err([variant |-> "Io"])
       ELSE IF file.extension \notin {"csv", "json"}
       THEN TaxonomyError(2001, "unsupported input extension: expected .csv or .json")
       ELSE validate_batch(file.rows, [network |-> parsed.val, max_recipients |-> 500])

CoreError(result) == Err([kind |-> "Core", core |-> result.err])

\* fn exit_code_for_core_error
exit_code_for_core_error(core) ==
    IF core.variant \in {"Amount", "BatchValidation"} THEN 1
    ELSE IF core.variant \in {"Io", "Csv", "Json"} THEN 3
    ELSE IF core.variant = "Unimplemented" THEN 4
    ELSE IF core.code \in 1001..1013 THEN 1
    ELSE IF core.code \in 2001..2005 THEN 2
    ELSE IF core.code \in 3001..3003 THEN 3
    ELSE 4

\* fn exit_code_for_error
exit_code_for_error(err) ==
    CASE err.kind = "Core" -> exit_code_for_core_error(err.core)
      [] err.kind = "ConfirmationRequired" -> 10
      [] err.kind = "StdinBlocked" -> 11
      [] err.kind = "Internal" -> 4

\* AgentOutputHandler::confirm_proceed
AgentOutputHandler_confirm_proceed == Ok(TRUE)

\* OperatorOutput::confirm_proceed once read_line has returned: `line` is
\* the line read, or None when reading or flushing failed
OperatorOutput_confirm_proceed(line) ==
    IF line = None THEN Err([kind |-> "Io"])
    ELSE Ok(is_confirmation_accepted(line.some))

\* a maybe_confirm that goes on whatever the answer is
maybe_confirm_AnyAnswer(force, confirmed) ==
    IF force THEN Ok(<<>>)
    ELSE IF confirmed.ok THEN Ok(<<>>)
    ELSE IF confirmed.err.kind = "StdinBlocked" THEN Err([kind |-> "StdinBlocked"])
    ELSE Err([kind |-> "Internal"])

\* fn maybe_confirm, given what output.confirm_proceed returns when called
maybe_confirm(force, confirmed) ==
    IF force THEN Ok(<<>>)
    ELSE IF confirmed.ok /\ confirmed.val THEN Ok(<<>>)
    ELSE IF confirmed.ok THEN Err([kind |-> "ConfirmationRequired"])
    ELSE IF confirmed.err.kind = "StdinBlocked" THEN Err([kind |-> "StdinBlocked"])
    ELSE Err([kind |-> "Internal"])

\* commands::validate::run, given what its read_and_validate_file returns
validate_run(validated) ==
    IF ~validated.ok THEN CoreError(validated)
    ELSE Ok([command |-> "validate", recipient_count |-> Len(validated.val.recipients)])

\* commands::construct::run and commands::generate::run: the possible
\* Results, given what their read_and_validate_file returns (the file is
\* the one dispatch has read for the summary)
step_intent(command, built) ==
    IF ~built.ok THEN {CoreError(built)}
    ELSE IF command = "construct"
    THEN {Ok([command |-> "construct", intent |-> built.val])}
    ELSE {IF qr.ok
          THEN Ok([command |-> "generate", intent |-> built.val,
                   frames |-> qr.val.total_frames])
          ELSE CoreError(qr) : qr \in generate_qr(built.val)}

step_run(command, validated) ==
    IF ~validated.ok THEN {CoreError(validated)}
    ELSE UNION { step_intent(command, built) :
                 built \in {construct_zip321(validated.val)} }

\* fn run after dispatch has returned: the Result and the exit code
Exit(result, answer) ==
    CHOOSE out \in
        { Some([result |-> r, answer |-> answer,
                exit_code |-> IF r.ok THEN 0 ELSE exit_code_for_error(r.err)]) :
          r \in {result} } : TRUE

TheStep(inv) == IF inv.command = "construct" THEN "construct::run" ELSE "generate::run"

\* the part of dispatch that follows output.confirm_proceed (or follows the
\* summary, with force): maybe_confirm and the construct/generate step;
\* `done` are the steps run so far
Proceed(inv, validated, done, confirmed, answer) ==
    \E passed \in {maybe_confirm(inv.force, confirmed)} :
       IF ~passed.ok
       THEN /\ cli_steps' = done
            /\ cli_out' = Exit(passed, answer)
       ELSE /\ cli_steps' = Append(done, TheStep(inv))
            /\ \E result \in step_run(inv.command, validated) :
                  cli_out' = Exit(result, answer)

(***************************************************************************)
(* CLI specification: one invocation; dispatch runs until it returns or     *)
(* until the operator prompt waits for a line on stdin                      *)
(***************************************************************************)
\* the file of the test write_valid_csv, a file with a bad amount, a file
\* that is neither CSV nor JSON, and no file
CliFiles ==
    { [exists |-> TRUE, extension |-> "csv",
       rows |-> Numbered(<<RawRow(MAINNET_TADDR, Some(<<"1">>), None, Some(<<"c", "o", "f", "f", "e", "e">>), Some(<<"a", "l", "i", "c", "e">>)),
                           RawRow(MAINNET_TADDR, Some(<<"2">>), None, Some(<<"t", "e", "a">>), Some(<<"b", "o", "b">>))>>)],
      [exists |-> TRUE, extension |-> "csv",
       rows |-> Numbered(<<RawRow(MAINNET_TADDR, Some(<<"-", "1">>), None, None, None)>>)],
      [exists |-> TRUE, extension |-> "txt", rows |-> <<>>],
      [exists |-> FALSE, extension |-> "csv", rows |-> <<>>] }

\* what read_line can deliver at the prompt; None is a failed read
AnswerLines ==
    {None} \cup {Some(line) : line \in
        { <<"y", "\n">>, <<"Y", "E", "S", "\n">>, <<" ", "y", "e", "s", " ", "\n">>,
          <<"n", "\n">>, <<"\n">>, <<>>, <<"y", "e", "s", "!", "\n">> }}

Invocations ==
    [command : {"validate", "construct", "generate"},
     force : BOOLEAN, output_json : BOOLEAN, interactive : BOOLEAN,
     stdout_is_terminal : BOOLEAN, stdin_is_terminal : BOOLEAN,
     network : {<<"m", "a", "i", "n", "n", "e", "t">>, <<"T", "e", "s", "t", "n", "e", "t">>},
     file : CliFiles]

ModeOf(inv) == detect_mode(inv.output_json, inv.interactive, inv.stdout_is_terminal)

InitCli ==
    /\ MoneyIdle /\ PipeIdle /\ UrIdle /\ QrIdle /\ DeskIdle
    /\ \E inv \in Invocations : invocation = Some(inv)
    /\ cli_steps = <<>> /\ cli_out = None

\* fn run and fn dispatch, up to the return or up to the read_line of the
\* operator prompt
Dispatch ==
    /\ invocation # None /\ cli_steps = <<>> /\ cli_out = None
    /\ \E validated \in {read_and_validate_file(invocation.some.file,
                                                    invocation.some.network)} :
       LET inv == invocation.some
           shown == <<"read_and_validate_file", "display_batch_summary">>
       IN IF inv.command = "validate"
          THEN /\ cli_steps' = <<"validate::run">>
               /\ cli_out' = Exit(validate_run(validated), None)
          ELSE IF ~validated.ok
          THEN /\ cli_steps' = <<"read_and_validate_file">>
               /\ cli_out' = Exit(CoreError(validated), None)
          ELSE IF ~inv.force /\ ModeOf(inv) = "Operator" /\ inv.stdin_is_terminal
          THEN /\ cli_steps' = Append(shown, "confirm_proceed")
               /\ cli_out' = None
          ELSE Proceed(inv, validated,
                       IF inv.force THEN shown ELSE Append(shown, "confirm_proceed"),
                       IF ModeOf(inv) = "Agent" THEN AgentOutputHandler_confirm_proceed
                       ELSE Err([kind |-> "StdinBlocked"]),
                       None)
    /\ UNCHANGED <<invocation, moneyVars, pipeVars, urVars, qrVars, deskVars>>

\* read_line returns at the operator prompt and dispatch runs to its end
Answer ==
    /\ invocation # None /\ cli_out = None /\ cli_steps # <<>>
    /\ \E validated \in {read_and_validate_file(invocation.some.file,
                                                    invocation.some.network)} :
       \E line \in AnswerLines :
          Proceed(invocation.some, validated, cli_steps,
                  OperatorOutput_confirm_proceed(line), Some(line))
    /\ UNCHANGED <<invocation, moneyVars, pipeVars, urVars, qrVars, deskVars>>

NextCli == Dispatch \/ Answer

SpecCli == InitCli /\ [][NextCli]_vars

Ran(step) == \E i \in 1..Len(cli_steps) : cli_steps[i] = step

\* C30: the construct or generate step runs only as the last step, after the
\* input validated and was summarised, and after the confirmation step was
\* passed: with force confirm_proceed is not called and the step runs;
\* without force the step runs exactly when confirm_proceed returned true; an
\* answer other than y or yes ends the command with ConfirmationRequired
\* and exit code 10 and no intent; validate never calls confirm_proceed; in
\* agent mode confirm_proceed is answered true at once, so the command never
\* waits at the prompt.
C30_StepOnlyAfterConfirmation ==
    invocation # None =>
      \A valid \in {read_and_validate_file(invocation.some.file,
                                             invocation.some.network).ok} :
        LET inv == invocation.some
            step == TheStep(inv)
            waiting == cli_out = None /\ cli_steps # <<>>
        IN /\ inv.command = "validate" => ~Ran("confirm_proceed") /\ ~waiting
           /\ Ran(step) =>
                 /\ inv.command # "validate" /\ valid /\ cli_out # None
                 /\ cli_steps[Len(cli_steps)] = step
                 /\ SubSeq(cli_steps, 1, 2) = <<"read_and_validate_file", "display_batch_summary">>
                 /\ inv.force \/ (Len(cli_steps) = 4 /\ cli_steps[3] = "confirm_proceed")
                 /\ (~inv.force /\ ModeOf(inv) = "Operator") =>
                        /\ inv.stdin_is_terminal
                        /\ cli_out.some.answer # None /\ cli_out.some.answer.some # None
                        /\ is_confirmation_accepted(cli_out.some.answer.some.some)
           /\ (inv.force /\ cli_out # None) =>
                 (~Ran("confirm_proceed") /\ (inv.command # "validate" /\ valid => Ran(step)))
           /\ (~inv.force /\ cli_out # None /\ inv.command # "validate" /\ valid) =>
                 /\ Ran("confirm_proceed")
                 /\ ModeOf(inv) = "Agent" => Ran(step)
                 /\ (cli_out.some.answer # None /\ cli_out.some.answer.some # None
                     /\ ~is_confirmation_accepted(cli_out.some.answer.some.some)) =>
                        /\ ~Ran(step)
                        /\ cli_out.some.result = Err([kind |-> "ConfirmationRequired"])
                        /\ cli_out.some.exit_code = 10
           /\ waiting => (ModeOf(inv) = "Operator" /\ ~inv.force /\ inv.stdin_is_terminal)

\* an operator ran construct on the valid file without force, typed "n",
\* and the command ended with exit code 10 without running the step
C30_Witness ==
    /\ invocation # None /\ invocation.some.command = "construct"
    /\ ~invocation.some.force /\ ModeOf(invocation.some) = "Operator"
    /\ cli_steps = <<"read_and_validate_file", "display_batch_summary", "confirm_proceed">>
    /\ cli_out # None /\ cli_out.some.answer = Some(Some(<<"n", "\n">>))
    /\ cli_out.some.exit_code = 10

====
